---- MODULE Spec2Model ----
(***************************************************************************)
(* Verification model of the Illyria scraper (Lost-Saint/Illyria-scraper). *)
(*                                                                         *)
(* Part 1: the transport layer of src/src/utils/request.ts, lines 169-324  *)
(* (the retry wrapper that swallows failures into a null result).          *)
(*                                                                         *)
(* A logical call is request(endpoint).with(params).doing(callback).       *)
(* with() calls retrieve(), which either throws synchronously or issues    *)
(* one HTTP call; doing() chains promise.then(h).catch(g).  The model has  *)
(* one action for the synchronous call, one for each way the transport     *)
(* settles the HTTP promise, and one for each of the two promise handlers. *)
(* A retry is the recursive request(endpoint, retry + 1).with(params)      *)
(* .doing(callback) whose promise the outer promise adopts.                *)
(***************************************************************************)
EXTENDS Integers, Sequences, FiniteSets, TLC

VARIABLES
    active,     \* the logical calls the environment may start
    pc,         \* per call: position in the promise chain
    endpoint,   \* per call: the selector given to request()
    params,     \* per call: the parameters given to with()
    retry,      \* per call: the retry argument of the innermost request()
    error,      \* per call: the rejection reason travelling to .catch
    outcome,    \* per call: what the caller of doing() observes
    history,    \* per call: outcome of every attempt so far (observation)
    http,       \* every HTTP call handed to axios, in order
    console,    \* every console.warn / console.error entry, in order
    response,   \* per call: the data of the response a callback is given
    applied,    \* the pure function last applied ("none" before any)
    arg,        \* the input the pure functions are applied to
    returned,   \* what the applied function returned
    frames      \* the request() invocations of the rethrowing wrapper that
                \* have not settled, outermost first

vars == <<active, pc, endpoint, params, retry, error, outcome, history,
          http, console, response, applied, arg, returned, frames>>

----------------------------------------------------------------------------
(* Bounds of the model.                                                    *)

\* strings and arrays returned by a callback have length 0..MaxLen
MaxLen == 1
\* with() is given one of NumParams distinct parameter objects
NumParams == 2

----------------------------------------------------------------------------
(* JavaScript values a callback can return.                                *)

Undefined == [type |-> "undefined", len |-> 0]
Null == [type |-> "null", len |-> 0]
Str(n) == [type |-> "string", len |-> n]
Arr(n) == [type |-> "array", len |-> n]

Values == {Undefined, Null} \cup {Str(n) : n \in 0..MaxLen}
              \cup {Arr(n) : n \in 0..MaxLen}

\* JavaScript truthiness (the operand of !)
Truthy(item) ==
    CASE item.type = "undefined" -> FALSE
      [] item.type = "null" -> FALSE
      [] item.type = "string" -> item.len > 0
      [] OTHER -> TRUE

\* item ?? null
OrNull(item) == IF item.type \in {"undefined", "null"} THEN Null ELSE item

\* (variant of isEmpty that forgets the empty array)
isEmpty_noArray(item) == ~Truthy(item)

\* const isEmpty = (item) => !item || (Array.isArray(item) && item.length === 0)
isEmpty(item) == ~Truthy(item) \/ (item.type = "array" /\ item.len = 0)

----------------------------------------------------------------------------
(* Endpoints and retrieve().                                               *)

Endpoint == {"info", "text", "audio"}
\* selectors a caller can pass: the three endpoints and one that is none of them
Selectors == Endpoint \cup {"invalid"}
Params == 1..NumParams

DefaultTimeout == 30000
AudioTimeout == 60000

NoRequest == [method |-> "none", path |-> "none", params |-> 0,
              timeout |-> 0, contentType |-> "none", responseType |-> "none"]

\* (variant of invalidEndpoint whose message leaves the selector out)
invalidEndpoint_bare(e) ==
    [threw |-> TRUE, message |-> <<"Invalid endpoint">>, request |-> NoRequest]

\* throw new Error(`Invalid endpoint: ${endpoint}`)
invalidEndpoint(e) ==
    [threw |-> TRUE, message |-> <<"Invalid endpoint: ", e>>,
     request |-> NoRequest]

\* (variant of retrieve that sends the info request with GET as well)
retrieve_infoByGet(e, p) ==
    IF e \in {"info", "text"} THEN
        [threw |-> FALSE, message |-> <<>>,
         request |-> [method |-> "GET",
                      path |-> IF e = "info"
                               THEN "/_/TranslateWebserverUi/data/batchexecute"
                               ELSE "/m",
                      params |-> p, timeout |-> DefaultTimeout,
                      contentType |-> "none", responseType |-> "default"]]
    ELSE IF e = "audio" THEN
        [threw |-> FALSE, message |-> <<>>,
         request |-> [method |-> "GET", path |-> "/translate_tts",
                      params |-> p, timeout |-> AudioTimeout,
                      contentType |-> "none", responseType |-> "arraybuffer"]]
    ELSE invalidEndpoint(e)

\* retrieve(endpoint, params): the axios call it makes, or the Error it throws
retrieve(e, p) ==
    IF e = "info" THEN
        [threw |-> FALSE, message |-> <<>>,
         request |-> [method |-> "POST",
                      path |-> "/_/TranslateWebserverUi/data/batchexecute",
                      params |-> p, timeout |-> DefaultTimeout,
                      contentType |-> "application/x-www-form-urlencoded",
                      responseType |-> "default"]]
    ELSE IF e = "text" THEN
        [threw |-> FALSE, message |-> <<>>,
         request |-> [method |-> "GET", path |-> "/m",
                      params |-> p, timeout |-> DefaultTimeout,
                      contentType |-> "none", responseType |-> "default"]]
    ELSE IF e = "audio" THEN
        [threw |-> FALSE, message |-> <<>>,
         request |-> [method |-> "GET", path |-> "/translate_tts",
                      params |-> p, timeout |-> AudioTimeout,
                      contentType |-> "none", responseType |-> "arraybuffer"]]
    ELSE invalidEndpoint(e)

----------------------------------------------------------------------------
(* Rejection reasons.                                                      *)

\* response is <<status>> when the error carries a response, <<>> otherwise
NoError == [response |-> <<>>, request |-> FALSE, origin |-> "none"]
NetworkError == [response |-> <<>>, request |-> TRUE, origin |-> "transport"]
SetupError == [response |-> <<>>, request |-> FALSE, origin |-> "transport"]
HttpError(s) == [response |-> <<s>>, request |-> TRUE, origin |-> "transport"]
CallbackError == [response |-> <<>>, request |-> FALSE, origin |-> "callback"]

\* statuses axios rejects with (its default validateStatus accepts 2xx only)
Statuses == {400, 403, 404, 429, 500, 503}
TransportErrors == {NetworkError, SetupError} \cup {HttpError(s) : s \in Statuses}

\* (variant of shouldRetry that retries an error without a response only
\* when it carries a request, as a connection failure does)
shouldRetry_requestOnly(err) ==
    (err.response = <<>> /\ err.request) \/ (err.response # <<>> /\ err.response[1] >= 500)

\* (variant of shouldRetry that forgets errors without a response)
shouldRetry_statusOnly(err) == err.response # <<>> /\ err.response[1] >= 500

\* (variant of shouldRetry that also retries 4xx statuses)
shouldRetry_clientErrors(err) == err.response = <<>> \/ err.response[1] >= 400

\* const shouldRetry = !error.response || error.response.status >= 500
shouldRetry(err) == err.response = <<>> \/ err.response[1] >= 500

\* the literal 3 of "retry < 3"
MaxRetries == 3

\* (variant of canRetry without a cap)
canRetry_always(r) == r >= 0

\* (variant of canRetry with <= for <)
canRetry_offByOne(r) == r <= MaxRetries

\* retry < 3
canRetry(r) == r < MaxRetries

----------------------------------------------------------------------------
(* Console entries.  attempt is <<n>> when the message text contains an    *)
(* attempt number and <<>> when it does not; status likewise.              *)

\* the console.error of the catch handler (three branches, one call each)
errorEntry(e, err) ==
    IF err.response # <<>> THEN
        [sev |-> "error", text |-> "failed:", endpoint |-> e,
         status |-> err.response, attempt |-> <<>>]
    ELSE IF err.request THEN
        [sev |-> "error", text |-> "network error:", endpoint |-> e,
         status |-> <<>>, attempt |-> <<>>]
    ELSE
        [sev |-> "error", text |-> "error:", endpoint |-> e,
         status |-> <<>>, attempt |-> <<>>]

\* console.warn(`Empty result for ${endpoint}, retrying (${retry + 1}/3)`)
warnEmpty(e, r) ==
    [sev |-> "warn", text |-> "Empty result, retrying", endpoint |-> e,
     status |-> <<>>, attempt |-> <<r + 1>>]

\* (variant of warnError that writes with console.log)
warnError_asLog(e, r) ==
    [sev |-> "log", text |-> "Retrying after error", endpoint |-> e,
     status |-> <<>>, attempt |-> <<r + 1>>]

\* console.warn(`Retrying ${endpoint} after error (${retry + 1}/3)`)
warnError(e, r) ==
    [sev |-> "warn", text |-> "Retrying after error", endpoint |-> e,
     status |-> <<>>, attempt |-> <<r + 1>>]

----------------------------------------------------------------------------
(* The decisions of the two handlers of doing().                           *)

\* .then((response) => { ... }) once callback(response) has returned result
thenStep(r, result) ==
    IF isEmpty(result) /\ canRetry(r)
    THEN [do |-> "retry", value |-> Null]
    ELSE [do |-> "resolve", value |-> OrNull(result)]

\* (variant of catchStep whose last line returns nothing)
catchStep_noNull(r, err) ==
    IF shouldRetry(err) /\ canRetry(r)
    THEN [do |-> "retry", value |-> Null]
    ELSE [do |-> "resolve", value |-> Undefined]

\* .catch((error) => { ... }) after the console.error
catchStep(r, err) ==
    IF shouldRetry(err) /\ canRetry(r)
    THEN [do |-> "retry", value |-> Null]
    ELSE [do |-> "resolve", value |-> Null]

----------------------------------------------------------------------------
(* State.                                                                  *)

\* Names of logical calls.  Calls share nothing but the console and the
\* transport; Init decides which of them the environment starts.
Calls == {"a", "b"}

Pending == [state |-> "pending", value |-> Undefined, message |-> <<>>]
Resolved(v) == [state |-> "resolved", value |-> v, message |-> <<>>]
Rejected(m) == [state |-> "rejected", value |-> Undefined, message |-> m]
Threw(m) == [state |-> "threw", value |-> Undefined, message |-> m]

\* an Error thrown by retrieve() inside a handler
RetrieveError == [response |-> <<>>, request |-> FALSE, origin |-> "retrieve"]

\* what a callback does with a response: return a value or throw an Error
CallbackResults == [kind : {"return"}, value : Values]
                       \cup {[kind |-> "throw", value |-> Undefined]}

ValueAttempt(r, v) == [kind |-> "value", retry |-> r, value |-> v, error |-> NoError]
ErrorAttempt(r, err) == [kind |-> "error", retry |-> r, value |-> Undefined, error |-> err]

HttpEntry(c, r, req) == [call |-> c, retry |-> r, endpoint |-> endpoint[c], request |-> req]
ConsoleEntry(c, entry) == [call |-> c, log |-> entry]

\* a response without data (or whose data the callback does not look at)
NoData == [present |-> FALSE, nodes |-> <<>>]

\* the pure functions have not been given anything
NoArg == [kind |-> "none"]

Init ==
    /\ active = {"a"}
    /\ pc = [c \in Calls |-> "idle"]
    /\ endpoint = [c \in Calls |-> "info"]
    /\ params = [c \in Calls |-> 1]
    /\ retry = [c \in Calls |-> 0]
    /\ error = [c \in Calls |-> NoError]
    /\ outcome = [c \in Calls |-> Pending]
    /\ history = [c \in Calls |-> <<>>]
    /\ http = <<>>
    /\ console = <<>>
    /\ response = [c \in Calls |-> NoData]
    /\ frames = <<>>
    /\ applied = "none"
    /\ arg = NoArg
    /\ returned = NoArg

----------------------------------------------------------------------------
(* Actions.                                                                *)

\* request(e).with(p).doing(callback): with() runs retrieve(e, p) at once
Call(c, e, p) ==
    /\ c \in active
    /\ pc[c] = "idle"
    /\ endpoint' = [endpoint EXCEPT ![c] = e]
    /\ params' = [params EXCEPT ![c] = p]
    /\ LET rv == retrieve(e, p) IN
         IF rv.threw
         THEN /\ pc' = [pc EXCEPT ![c] = "done"]
              /\ outcome' = [outcome EXCEPT ![c] = Threw(rv.message)]
              /\ http' = http
         ELSE /\ pc' = [pc EXCEPT ![c] = "inflight"]
              /\ outcome' = outcome
              /\ http' = Append(http, [call |-> c, retry |-> 0, endpoint |-> e,
                                       request |-> rv.request])
    /\ UNCHANGED <<response, applied, arg, returned, frames>>
    /\ UNCHANGED <<active, retry, error, history, console>>

\* axios resolves the HTTP promise with a response
Fulfil(c) ==
    /\ pc[c] = "inflight"
    /\ pc' = [pc EXCEPT ![c] = "fulfilled"]
    /\ UNCHANGED <<response, applied, arg, returned, frames>>
    /\ UNCHANGED <<active, endpoint, params, retry, error, outcome, history,
                   http, console>>

\* axios rejects the HTTP promise (no response, or a non-2xx status)
Reject(c, err) ==
    /\ pc[c] = "inflight"
    /\ pc' = [pc EXCEPT ![c] = "rejected"]
    /\ error' = [error EXCEPT ![c] = err]
    /\ UNCHANGED <<response, applied, arg, returned, frames>>
    /\ UNCHANGED <<active, endpoint, params, retry, outcome, history,
                   http, console>>

\* (variant of retryOf with one counter that every call counts on)
retryOf_shared(c) == retry["a"] + retry["b"]

\* the retry argument of the request() whose handlers run for call c: a
\* parameter, bound anew by every request(endpoint, retry + 1)
retryOf(c) == retry[c]

\* (variant of ThenHandler that starts the retry without returning its
\* promise: the caller's promise resolves while the retry is in flight)
ThenHandler_noReturn(c, res) ==
    /\ pc[c] = "fulfilled"
    /\ res.kind = "return"
    /\ LET step == thenStep(retryOf(c), res.value)
           rv == retrieve(endpoint[c], params[c])
       IN
       /\ history' = [history EXCEPT
                         ![c] = Append(@, ValueAttempt(retryOf(c), res.value))]
       /\ IF step.do = "retry" /\ ~rv.threw
          THEN /\ console' = Append(console,
                     ConsoleEntry(c, warnEmpty(endpoint[c], retryOf(c))))
               /\ pc' = [pc EXCEPT ![c] = "inflight"]
               /\ retry' = [retry EXCEPT ![c] = @ + 1]
               /\ http' = Append(http, HttpEntry(c, retryOf(c) + 1, rv.request))
               /\ outcome' = [outcome EXCEPT ![c] = Resolved(Null)]
          ELSE /\ pc' = [pc EXCEPT ![c] = "done"]
               /\ outcome' = [outcome EXCEPT ![c] = Resolved(step.value)]
               /\ UNCHANGED <<retry, http, console>>
    /\ response' = [response EXCEPT ![c] = NoData]
    /\ UNCHANGED <<applied, arg, returned, frames>>
    /\ UNCHANGED <<active, endpoint, params, error>>

\* the handler given to .then, run on a response
ThenHandler(c, res) ==
    /\ pc[c] = "fulfilled"
    /\ IF res.kind = "throw"
       THEN \* callback(response) throws: the derived promise rejects
            /\ pc' = [pc EXCEPT ![c] = "rejected"]
            /\ error' = [error EXCEPT ![c] = CallbackError]
            /\ UNCHANGED <<retry, outcome, history, http, console>>
       ELSE LET step == thenStep(retryOf(c), res.value)
                rv == retrieve(endpoint[c], params[c])
            IN
            /\ history' = [history EXCEPT
                              ![c] = Append(@, ValueAttempt(retryOf(c), res.value))]
            /\ IF step.do = "retry"
               THEN /\ console' = Append(console,
                          ConsoleEntry(c, warnEmpty(endpoint[c], retryOf(c))))
                    /\ IF rv.threw
                       THEN /\ pc' = [pc EXCEPT ![c] = "rejected"]
                            /\ error' = [error EXCEPT ![c] = RetrieveError]
                            /\ UNCHANGED <<retry, http>>
                       ELSE /\ pc' = [pc EXCEPT ![c] = "inflight"]
                            /\ retry' = [retry EXCEPT ![c] = @ + 1]
                            /\ http' = Append(http,
                                  HttpEntry(c, retryOf(c) + 1, rv.request))
                            /\ error' = error
                    /\ outcome' = outcome
               ELSE /\ pc' = [pc EXCEPT ![c] = "done"]
                    /\ outcome' = [outcome EXCEPT ![c] = Resolved(step.value)]
                    /\ UNCHANGED <<retry, error, http, console>>
    \* the response object is dropped when the handler returns
    /\ response' = [response EXCEPT ![c] = NoData]
    /\ UNCHANGED <<applied, arg, returned, frames>>
    /\ UNCHANGED <<active, endpoint, params>>

\* the handler given to .catch, run on a rejection of the HTTP promise or of
\* the .then handler
CatchHandler(c) ==
    /\ pc[c] = "rejected"
    /\ LET err == error[c]
           step == catchStep(retryOf(c), err)
           rv == retrieve(endpoint[c], params[c])
           logged == Append(console, ConsoleEntry(c, errorEntry(endpoint[c], err)))
       IN
       /\ history' = [history EXCEPT
                         ![c] = Append(@, ErrorAttempt(retryOf(c), err))]
       /\ error' = [error EXCEPT ![c] = NoError]
       /\ IF step.do = "retry"
          THEN /\ console' = Append(logged,
                     ConsoleEntry(c, warnError(endpoint[c], retryOf(c))))
               /\ IF rv.threw
                  THEN \* a throw inside .catch rejects the returned promise
                       /\ pc' = [pc EXCEPT ![c] = "done"]
                       /\ outcome' = [outcome EXCEPT ![c] = Rejected(rv.message)]
                       /\ UNCHANGED <<retry, http>>
                  ELSE /\ pc' = [pc EXCEPT ![c] = "inflight"]
                       /\ retry' = [retry EXCEPT ![c] = @ + 1]
                       /\ http' = Append(http,
                             HttpEntry(c, retryOf(c) + 1, rv.request))
                       /\ outcome' = outcome
          ELSE /\ console' = logged
               /\ pc' = [pc EXCEPT ![c] = "done"]
               /\ outcome' = [outcome EXCEPT ![c] = Resolved(step.value)]
               /\ UNCHANGED <<retry, http>>
    /\ UNCHANGED <<response, applied, arg, returned, frames>>
    /\ UNCHANGED <<active, endpoint, params>>

Next ==
    \/ \E c \in Calls, e \in Selectors, p \in Params : Call(c, e, p)
    \/ \E c \in Calls : Fulfil(c)
    \/ \E c \in Calls, err \in TransportErrors : Reject(c, err)
    \/ \E c \in Calls, res \in CallbackResults : ThenHandler(c, res)
    \/ \E c \in Calls : CatchHandler(c)

Spec == Init /\ [][Next]_vars

TypeOK ==
    /\ active \subseteq Calls
    /\ pc \in [Calls -> {"idle", "inflight", "fulfilled", "rejected", "done"}]
    /\ endpoint \in [Calls -> Selectors]
    /\ params \in [Calls -> Params]
    /\ retry \in [Calls -> 0..MaxRetries]

----------------------------------------------------------------------------
(* Observations used by the properties.                                    *)

\* HTTP calls issued for logical call c
HttpCount(c) == Cardinality({i \in 1..Len(http) : http[i].call = c})

\* console entries of a severity written for logical call c
LogCount(c, sev) ==
    Cardinality({i \in 1..Len(console) :
                    console[i].call = c /\ console[i].log.sev = sev})

\* results the specification calls absent or semantically empty
EmptyResults == {Undefined, Null, Str(0), Arr(0)}

EmptyAttempt(a) == a.kind = "value" /\ a.value \in EmptyResults
PopulatedAttempt(a) == a.kind = "value" /\ a.value \notin EmptyResults
FailedAttempt(a) == a.kind = "error"
ConnectionFailure(a) ==
    a.kind = "error" /\ a.error.origin = "transport" /\ a.error.response = <<>>
StatusFailure(a, S) ==
    a.kind = "error" /\ a.error.response # <<>> /\ a.error.response[1] \in S

\* the first k attempts of call c all satisfy P
FirstAttempts(c, k, P(_)) ==
    /\ Len(history[c]) >= k
    /\ \A i \in 1..k : P(history[c][i])

----------------------------------------------------------------------------
(* C1: whatever the outcomes of the attempts, one logical call issues at   *)
(* most 4 HTTP calls (1 initial + 3 retries); retries after an empty       *)
(* result and retries after a failure count against the same cap of 3.     *)
C1_AtMostFourHttpCalls ==
    \A c \in Calls :
        /\ HttpCount(c) <= 4
        /\ LogCount(c, "warn") <= 3
        /\ retry[c] <= 3

\* a call that used all 4 HTTP calls after both empty results and failures
C1_Witness ==
    \E c \in Calls :
        /\ pc[c] = "done"
        /\ HttpCount(c) = 4
        /\ \E i, j \in 1..Len(history[c]) :
              EmptyAttempt(history[c][i]) /\ FailedAttempt(history[c][j])

C4_AlwaysServerError ==
    \A c \in Calls :
        ( /\ pc[c] = "done"
          /\ history[c] # <<>>
          /\ \A i \in 1..Len(history[c]) :
                StatusFailure(history[c][i], 500..599) ) =>
            /\ HttpCount(c) = 4
            /\ LogCount(c, "error") = 4
            /\ LogCount(c, "warn") = 3
            /\ outcome[c] = Resolved(Null)

\* a finished call all of whose attempts failed with a 5xx status
C4_Witness ==
    \E c \in Calls :
        /\ pc[c] = "done"
        /\ FirstAttempts(c, 4, LAMBDA a : StatusFailure(a, 500..599))

(* C5: if the first k attempts (0 <= k <= 3) give an empty result and      *)
(* attempt k+1 gives a populated value v, exactly k+1 HTTP calls are       *)
(* issued and the call resolves to v; in particular every empty result     *)
(* among the first three attempts is followed by another HTTP call.        *)
C5_EmptyThenValue ==
    \A c \in Calls :
        /\ \A k \in 0..3 :
              ( /\ FirstAttempts(c, k, EmptyAttempt)
                /\ Len(history[c]) >= k + 1
                /\ PopulatedAttempt(history[c][k + 1]) ) =>
                  /\ pc[c] = "done"
                  /\ Len(history[c]) = k + 1
                  /\ HttpCount(c) = k + 1
                  /\ outcome[c] = Resolved(history[c][k + 1].value)
        /\ \A k \in 1..3 :
              FirstAttempts(c, k, EmptyAttempt) => HttpCount(c) >= k + 1

\* three empty results, then a populated value on the fourth HTTP call
C5_Witness ==
    \E c \in Calls :
        /\ FirstAttempts(c, 3, EmptyAttempt)
        /\ Len(history[c]) = 4
        /\ PopulatedAttempt(history[c][4])
        /\ HttpCount(c) = 4
        /\ outcome[c].state = "resolved"

(* C6: if the first k attempts (0 <= k <= 3) fail with a connection-level  *)
(* error and attempt k+1 gives a populated value v, exactly k+1 HTTP calls *)
(* are issued, k errors and k warnings are logged, and the call resolves   *)
(* to v; every such failure among the first three attempts is followed by  *)
(* another HTTP call.                                                      *)
C6_NetworkErrorThenValue ==
    \A c \in Calls :
        /\ \A k \in 0..3 :
              ( /\ FirstAttempts(c, k, ConnectionFailure)
                /\ Len(history[c]) >= k + 1
                /\ PopulatedAttempt(history[c][k + 1]) ) =>
                  /\ pc[c] = "done"
                  /\ HttpCount(c) = k + 1
                  /\ LogCount(c, "error") = k
                  /\ LogCount(c, "warn") = k
                  /\ outcome[c] = Resolved(history[c][k + 1].value)
        /\ \A k \in 1..3 :
              FirstAttempts(c, k, ConnectionFailure) => HttpCount(c) >= k + 1

\* one connection-level failure, then a populated value: 2 calls, 1 error,
\* 1 warning
C6_Witness ==
    \E c \in Calls :
        /\ FirstAttempts(c, 1, ConnectionFailure)
        /\ Len(history[c]) = 2
        /\ PopulatedAttempt(history[c][2])
        /\ HttpCount(c) = 2
        /\ LogCount(c, "error") = 1
        /\ LogCount(c, "warn") = 1

(* C7: a failed attempt with status 429 made while fewer than 3 retries    *)
(* have been used is followed by another HTTP call, as for a 5xx status.   *)
C7_RateLimitRetried ==
    \A c \in Calls :
        \A i \in 1..Len(history[c]) :
            (StatusFailure(history[c][i], {429}) /\ history[c][i].retry < 3)
                => HttpCount(c) >= i + 1

(* C8: a failed attempt whose response status is neither 5xx nor 429 is    *)
(* the last attempt of its call, whatever the retry counter: no further    *)
(* HTTP call is issued and the call resolves to null.                      *)
C8_ClientErrorNotRetried ==
    \A c \in Calls :
        \A i \in 1..Len(history[c]) :
            StatusFailure(history[c][i], (0..499) \ {429}) =>
                /\ i = Len(history[c])
                /\ pc[c] = "done"
                /\ HttpCount(c) = i
                /\ outcome[c] = Resolved(Null)

\* a 4xx failure on the third attempt ends the call after 3 HTTP calls
C8_Witness ==
    \E c \in Calls :
        /\ Len(history[c]) = 3
        /\ StatusFailure(history[c][3], {400, 403, 404})
        /\ HttpCount(c) = 3
        /\ pc[c] = "done"

(* C9: when all 4 attempts succeed at HTTP level and each gives an absent  *)
(* or empty value, exactly 4 HTTP calls are issued and the call resolves   *)
(* to null, not to the empty string or the empty array.                    *)
C9_AllEmptyResolvesNull ==
    \A c \in Calls :
        (pc[c] = "done" /\ Len(history[c]) = 4
            /\ FirstAttempts(c, 4, EmptyAttempt)) =>
                /\ HttpCount(c) = 4
                /\ outcome[c] = Resolved(Null)

(* C10: every failed attempt is logged with severity error and every retry *)
(* with severity warning, each entry carrying the endpoint name and the    *)
(* attempt number; warnings = retries and errors = failed attempts.        *)
C10_LogsCarryEndpointAndAttempt ==
    \A c \in Calls :
        /\ \A i \in 1..Len(console) :
              console[i].call = c =>
                  /\ console[i].log.endpoint = endpoint[c]
                  /\ console[i].log.attempt # <<>>
        /\ LogCount(c, "warn") = retry[c]
        /\ LogCount(c, "error") =
              Cardinality({i \in 1..Len(history[c]) : FailedAttempt(history[c][i])})


----------------------------------------------------------------------------
(***************************************************************************)
(* Part 2: the language code registry (utils/language.ts).                 *)
(*                                                                         *)
(* The three tables come from languages.json.  A code given to a function  *)
(* is a JavaScript value: null, undefined or a string.                     *)
(***************************************************************************)

CodeNull == [type |-> "null", str |-> ""]
CodeUndefined == [type |-> "undefined", str |-> ""]
CodeStr(s) == [type |-> "string", str |-> s]

\* !!code
TruthyCode(code) == code.type = "string" /\ code.str # ""

\* languages.json, "languages": code -> display name
languages ==
    [auto |-> "Detect", en |-> "English", es |-> "Spanish", fr |-> "French",
     zh |-> "Chinese", zh_HANT |-> "Chinese (Traditional)"]

\* languages.json, "exceptions": per direction, excepted code -> replacement
exceptions == [source |-> [zh_HANT |-> "zh"], target |-> [auto |-> "en"]]

\* languages.json, "mappings": request is internal -> provider, response is
\* provider -> internal
mappings ==
    [request |-> [zh |-> "zh-CN", zh_HANT |-> "zh-TW"],
     response |-> ("zh-CN" :> "zh" @@ "zh-TW" :> "zh")]

LangTypes == {"source", "target"}
\* the langType argument left out
NoLangType == "undefined"

\* property names every object literal inherits from Object.prototype
ObjectPrototype == {"constructor", "toString", "valueOf", "hasOwnProperty"}

\* what obj[key] reads when key is inherited, and when there is no such key
InheritedMember == "<inherited member>"
NoMember == "<undefined>"

\* isKeyOf(obj)(key): key in obj
isKeyOf(obj, key) == key \in DOMAIN obj \cup ObjectPrototype

\* obj[key]
Get(obj, key) ==
    IF key \in DOMAIN obj THEN obj[key]
    ELSE IF key \in ObjectPrototype THEN InheritedMember
    ELSE NoMember

\* (variant of filteredLanguages that filters nothing out)
filteredLanguages_keepAll(type) == languages

\* (variant of filteredLanguages that filters on the replacements, not the keys)
filteredLanguages_values(type) ==
    [code \in {k \in DOMAIN languages :
                  k \notin {exceptions[type][x] : x \in DOMAIN exceptions[type]}}
        |-> languages[code]]

\* filteredLanguages(type): the entries of languages whose code is not a key
\* of exceptions[type]
filteredLanguages(type) ==
    [code \in {k \in DOMAIN languages : k \notin DOMAIN exceptions[type]}
        |-> languages[code]]

languageList ==
    [all |-> languages,
     source |-> filteredLanguages("source"),
     target |-> filteredLanguages("target")]

\* isValidCode(code, langType): !!code && isKeyOf(languageList[langType ?? "all"])(code)
isValidCode(code, langType) ==
    /\ TruthyCode(code)
    /\ isKeyOf(languageList[IF langType = NoLangType THEN "all" ELSE langType],
               code.str)

\* mapGoogleCode(langCode)
mapGoogleCode(langCode) ==
    IF isKeyOf(mappings["request"], langCode)
    THEN Get(mappings["request"], langCode)
    ELSE langCode

\* (variant of mapLingvaCode with the two branches exchanged)
mapLingvaCode_inverted(langCode) ==
    IF isKeyOf(mappings["response"], langCode)
    THEN langCode
    ELSE Get(mappings["response"], langCode)

\* mapLingvaCode(langCode)
mapLingvaCode(langCode) ==
    IF isKeyOf(mappings["response"], langCode)
    THEN Get(mappings["response"], langCode)
    ELSE langCode

\* (variant of replaceExceptedCode that maps the codes it does not replace)
replaceExceptedCode_thenMap(langType, langCode) ==
    IF isKeyOf(exceptions[langType], langCode)
    THEN Get(exceptions[langType], langCode)
    ELSE mapGoogleCode(langCode)

\* (variant of replaceExceptedCode that reads the other direction's list)
replaceExceptedCode_otherList(langType, langCode) ==
    LET other == IF langType = "source" THEN "target" ELSE "source" IN
    IF isKeyOf(exceptions[other], langCode)
    THEN Get(exceptions[other], langCode)
    ELSE langCode

\* replaceExceptedCode(langType, langCode)
replaceExceptedCode(langType, langCode) ==
    IF isKeyOf(exceptions[langType], langCode)
    THEN Get(exceptions[langType], langCode)
    ELSE langCode

----------------------------------------------------------------------------
(* The registry's functions applied to every input of a bounded set.       *)

\* codes of the provider's code space
ProviderCodes == {"zh-CN", "zh-TW"}

\* strings given as a code: the full set, the provider's codes, the empty
\* string, a string that is no code, and inherited property names
CodeStrings ==
    DOMAIN languages \cup ProviderCodes \cup {"", "invalid_code"}
        \cup ObjectPrototype

CodeInputs == {CodeNull, CodeUndefined} \cup {CodeStr(s) : s \in CodeStrings}

LangArg(code, langType) == [kind |-> "lang", code |-> code, langType |-> langType]

\* what a function returned, and what the function before it had returned
Returned(v, before) == [value |-> v, prev |-> before]

TransportIdle ==
    /\ active = {}
    /\ pc = [c \in Calls |-> "idle"]
    /\ endpoint = [c \in Calls |-> "info"]
    /\ params = [c \in Calls |-> 1]
    /\ retry = [c \in Calls |-> 0]
    /\ error = [c \in Calls |-> NoError]
    /\ outcome = [c \in Calls |-> Pending]
    /\ history = [c \in Calls |-> <<>>]
    /\ http = <<>>
    /\ console = <<>>
    /\ response = [c \in Calls |-> NoData]
    /\ frames = <<>>

transportVars == <<active, pc, endpoint, params, retry, error, outcome,
                   history, http, console, response, frames>>

InitLang ==
    /\ TransportIdle
    /\ applied = "none"
    /\ arg \in {LangArg(code, t) : code \in CodeInputs,
                                   t \in LangTypes \cup {NoLangType}}
    /\ returned = NoArg

\* isValidCode(code, langType) and isValidCode(code)
ApplyIsValidCode ==
    /\ applied = "none"
    /\ applied' = "isValidCode"
    /\ returned' = Returned(isValidCode(arg.code, arg.langType), NoMember)
    /\ UNCHANGED <<arg, transportVars>>

\* languageList.all, languageList.source, languageList.target
ApplyLanguageList ==
    /\ applied = "none"
    /\ applied' = "languageList"
    /\ returned' = Returned(
          languageList[IF arg.langType = NoLangType THEN "all" ELSE arg.langType],
          NoMember)
    /\ UNCHANGED <<arg, transportVars>>

\* replaceExceptedCode(langType, langCode), and the same applied to its result
ApplyReplaceExceptedCode ==
    /\ arg.langType \in LangTypes
    /\ arg.code.type = "string"
    /\ \/ /\ applied = "none"
          /\ applied' = "replaceExceptedCode"
          /\ returned' = Returned(
                replaceExceptedCode(arg.langType, arg.code.str), NoMember)
       \/ /\ applied = "replaceExceptedCode"
          /\ applied' = "replaceExceptedCode twice"
          /\ returned' = Returned(
                replaceExceptedCode(arg.langType, returned.value), returned.value)
    /\ UNCHANGED <<arg, transportVars>>

\* mapGoogleCode(langCode)
ApplyMapGoogleCode ==
    /\ applied = "none"
    /\ arg.code.type = "string"
    /\ applied' = "mapGoogleCode"
    /\ returned' = Returned(mapGoogleCode(arg.code.str), NoMember)
    /\ UNCHANGED <<arg, transportVars>>

\* mapLingvaCode(langCode), and mapLingvaCode(mapGoogleCode(langCode))
ApplyMapLingvaCode ==
    /\ arg.code.type = "string"
    /\ \/ /\ applied = "none"
          /\ applied' = "mapLingvaCode"
          /\ returned' = Returned(mapLingvaCode(arg.code.str), NoMember)
       \/ /\ applied = "mapGoogleCode"
          /\ applied' = "mapGoogleCode, mapLingvaCode"
          /\ returned' = Returned(mapLingvaCode(returned.value), returned.value)
    /\ UNCHANGED <<arg, transportVars>>

NextLang ==
    \/ ApplyIsValidCode
    \/ ApplyLanguageList
    \/ ApplyReplaceExceptedCode
    \/ ApplyMapGoogleCode
    \/ ApplyMapLingvaCode

SpecLang == InitLang /\ [][NextLang]_vars

----------------------------------------------------------------------------
(* Properties of the registry.                                             *)

\* the codes of the full set
FullSet == DOMAIN languages

\* the input is a string of the full set
ArgInFullSet == arg.kind = "lang" /\ arg.code.type = "string" /\ arg.code.str \in FullSet

(* C14: isValidCode(c) is true exactly for the codes of the full set: it   *)
(* is false for null, undefined, the empty string and every string that is *)
(* not a key of the language table, names of inherited object properties   *)
(* ('toString', 'constructor') included.                                   *)
C14_ValidIffInFullSet ==
    (applied = "isValidCode" /\ arg.langType = NoLangType) =>
        returned.value = (arg.code.type = "string" /\ arg.code.str \in FullSet)

(* C15: a code of a direction's exception list is not valid for that       *)
(* direction, and every other code of the full set is valid for it         *)
(* ('auto' as source, 'zh_HANT' as target).                                *)
C15_ExceptionsInvalidForDirection ==
    (applied = "isValidCode" /\ arg.langType \in LangTypes /\ ArgInFullSet) =>
        returned.value = (arg.code.str \notin DOMAIN exceptions[arg.langType])

\* isValidCode('zh_HANT', 'source') has returned false
C15_Witness ==
    /\ applied = "isValidCode"
    /\ arg.langType = "source"
    /\ arg.code = CodeStr("zh_HANT")
    /\ returned.value = FALSE

(* C16: replaceExceptedCode is idempotent on the full set: applied to its  *)
(* own result with the same direction it returns that result.              *)
C16_ReplaceIdempotent ==
    (applied = "replaceExceptedCode twice" /\ ArgInFullSet) =>
        returned.value = returned.prev

\* the second application to the replacement of an excepted code
C16_Witness ==
    /\ applied = "replaceExceptedCode twice"
    /\ ArgInFullSet
    /\ arg.code.str \in DOMAIN exceptions[arg.langType]
    /\ returned.prev # arg.code.str

(* C17: on the full set replaceExceptedCode(d, c) is c when c is not in    *)
(* d's exception list and the listed replacement otherwise, and the result *)
(* is a code of d's subset (valid for direction d).                        *)
C17_ReplaceGivesValidCode ==
    (applied = "replaceExceptedCode" /\ ArgInFullSet) =>
        /\ returned.value =
              IF arg.code.str \in DOMAIN exceptions[arg.langType]
              THEN exceptions[arg.langType][arg.code.str]
              ELSE arg.code.str
        /\ returned.value \in FullSet \ DOMAIN exceptions[arg.langType]

\* replaceExceptedCode('target', 'auto') has returned 'en'
C17_Witness ==
    /\ applied = "replaceExceptedCode"
    /\ arg.langType = "target"
    /\ arg.code = CodeStr("auto")
    /\ returned.value = "en"

(* C18: mapLingvaCode(mapGoogleCode(c)) = c for every code c with no entry *)
(* in either mapping table; the mapping is no bijection, 'zh-CN' and       *)
(* 'zh-TW' both map back to 'zh'.                                          *)
C18_RoundTripOfUnmappedCodes ==
    /\ ( /\ applied = "mapGoogleCode, mapLingvaCode"
         /\ arg.code.str \notin DOMAIN mappings["request"]
         /\ arg.code.str \notin DOMAIN mappings["response"]
         /\ arg.code.str \notin ObjectPrototype ) =>
            returned.value = arg.code.str
    /\ (applied = "mapLingvaCode" /\ arg.code.str \in ProviderCodes) =>
            returned.value = "zh"

\* the round trip of 'en', a code without entry in either table
C18_Witness ==
    /\ applied = "mapGoogleCode, mapLingvaCode"
    /\ arg.code = CodeStr("en")
    /\ returned.prev = "en"

(* C19: languageList.source and languageList.target are the full set minus *)
(* the keys of that direction's exception list: each is part of            *)
(* languageList.all and holds no code of its direction's exception list.   *)
C19_ListsAreFullSetMinusExceptions ==
    (applied = "languageList" /\ arg.langType \in LangTypes) =>
        /\ DOMAIN returned.value = FullSet \ DOMAIN exceptions[arg.langType]
        /\ DOMAIN returned.value \subseteq DOMAIN languageList["all"]
        /\ DOMAIN returned.value \cap DOMAIN exceptions[arg.langType] = {}
        /\ \A code \in DOMAIN returned.value :
              returned.value[code] = languages[code]

\* languageList.source, which has 'auto' and has not 'zh_HANT'
C19_Witness ==
    /\ applied = "languageList"
    /\ arg.langType = "source"
    /\ "auto" \in DOMAIN returned.value
    /\ "zh_HANT" \notin DOMAIN returned.value


----------------------------------------------------------------------------
(***************************************************************************)
(* Part 3: getTranslationText (src/src/text.ts).                           *)
(*                                                                         *)
(* A query string is known by how many of its characters                   *)
(* encodeURIComponent leaves alone (plain), how many ASCII characters it   *)
(* escapes as %XX (special) and how many characters it escapes as          *)
(* %XX%XX%XX (wide, three UTF-8 bytes).  In the escaped string the hex     *)
(* digits are plain and each % is special.                                 *)
(***************************************************************************)

QueryString(p, s, w) == [plain |-> p, special |-> s, wide |-> w]

\* string.length
Length(str) == str.plain + str.special + str.wide

\* encodeURIComponent(str)
encodeURIComponent(str) ==
    QueryString(str.plain + 2 * str.special + 6 * str.wide,
                str.special + 3 * str.wide, 0)

\* the query string of the URL retrieve gives to axios.get for the text
\* endpoint: `.../m?sl=${source}&tl=${target}&q=${encodeURIComponent(query)}`
textUrl(p) ==
    [sl |-> p.source, tl |-> p.target, q |-> encodeURIComponent(p.query)]

\* the literal 7500 of "encodedQuery.length > 7500"
MaxEncodedLength == 7500

\* (variant of tooLong with >= for >)
tooLong_inclusive(encodedQuery) == Length(encodedQuery) >= MaxEncodedLength

\* encodedQuery.length > 7500
tooLong(encodedQuery) == Length(encodedQuery) > MaxEncodedLength

\* The text of an element is a sequence of tokens: a word, a white space
\* character, or the provider's error marker.
Word == "ganar"
Space == " "
Marker == "#af-error-page"
TextTokens == {Word, Space, Marker}

\* bounds of the response documents
MaxText == 1
MaxNodes == 2

RECURSIVE SeqsUpTo(_, _)
\* the sequences over S of length 0..n
SeqsUpTo(S, n) ==
    IF n = 0 THEN {<<>>}
    ELSE LET shorter == SeqsUpTo(S, n - 1) IN
         shorter \cup {Append(t, x) : t \in shorter, x \in S}

Texts == SeqsUpTo(TextTokens, MaxText)

\* response.data: absent, or a document known by the texts of its elements
\* of class result-container, in document order
Document(nodes) == [present |-> TRUE, nodes |-> nodes]
ResponseData == {NoData} \cup {Document(nodes) : nodes \in SeqsUpTo(Texts, MaxNodes)}

RECURSIVE combinedText(_)
\* $(selector).text(): the combined text of every matched element
combinedText(nodes) ==
    IF nodes = <<>> THEN <<>> ELSE Head(nodes) \o combinedText(Tail(nodes))

RECURSIVE trimStart(_)
trimStart(t) == IF t # <<>> /\ Head(t) = Space THEN trimStart(Tail(t)) ELSE t

RECURSIVE trimEnd(_)
trimEnd(t) ==
    IF t # <<>> /\ t[Len(t)] = Space THEN trimEnd(SubSeq(t, 1, Len(t) - 1)) ELSE t

\* String.prototype.trim
trim(t) == trimEnd(trimStart(t))

\* (variant of includesMarker that looks at the start of the text only)
includesMarker_startOnly(t) == t # <<>> /\ t[1] = Marker

\* translation.includes('#af-error-page')
includesMarker(t) == \E i \in 1..Len(t) : t[i] = Marker

\* a string value with its text
TextStr(t) == [type |-> "string", len |-> Len(t), text |-> t]

\* (variant of textCallback that does not look for the error marker)
textCallback_noMarkerCheck(data) ==
    IF ~data.present THEN [kind |-> "return", value |-> Undefined]
    ELSE LET translation == trim(combinedText(data.nodes)) IN
         IF translation # <<>>
         THEN [kind |-> "return", value |-> TextStr(translation)]
         ELSE [kind |-> "return", value |-> Null]

\* the callback getTranslationText gives to doing()
textCallback(data) ==
    IF ~data.present THEN [kind |-> "return", value |-> Undefined]
    ELSE LET translation == trim(combinedText(data.nodes)) IN
         IF translation # <<>> /\ ~includesMarker(translation)
         THEN [kind |-> "return", value |-> TextStr(translation)]
         ELSE [kind |-> "return", value |-> Null]

----------------------------------------------------------------------------
(* Inputs of getTranslationText.                                           *)

\* queries whose escaped length is within QueryMargin of the limit
QueryMargin == 1

EscapedLengths == (MaxEncodedLength - QueryMargin)..(MaxEncodedLength + 1)

\* a short query, a short query with a space ('a b'), and for each escaped
\* length near the limit a query of
\* plain characters, one with an escaped ASCII character and one with a
\* three-byte character
Queries ==
    {QueryString(3, 0, 0), QueryString(2, 1, 0)}
        \cup {QueryString(n, 0, 0) : n \in EscapedLengths}
        \cup {QueryString(n - 3, 1, 0) : n \in EscapedLengths}
        \cup {QueryString(n - 9, 0, 1) : n \in EscapedLengths}

\* (source, target) pairs
LangPairs == {<<"auto", "es">>, <<"zh", "zh_HANT">>}

TextArg(source, target, query) ==
    [kind |-> "text", source |-> source, target |-> target, query |-> query]

TextParams(source, target, query) ==
    [source |-> source, target |-> target, query |-> query]

\* errors of the transport in the text endpoint's runs
TextErrors == {NetworkError, HttpError(404), HttpError(503)}

InitText ==
    /\ active = {"a"}
    /\ pc = [c \in Calls |-> "idle"]
    /\ endpoint = [c \in Calls |-> "info"]
    /\ params = [c \in Calls |-> 1]
    /\ retry = [c \in Calls |-> 0]
    /\ error = [c \in Calls |-> NoError]
    /\ outcome = [c \in Calls |-> Pending]
    /\ history = [c \in Calls |-> <<>>]
    /\ http = <<>>
    /\ console = <<>>
    /\ response = [c \in Calls |-> NoData]
    /\ frames = <<>>
    /\ applied = "none"
    /\ arg \in {TextArg(lp[1], lp[2], q) : lp \in LangPairs, q \in Queries}
    /\ returned = NoArg

\* getTranslationText(source, target, query) up to the promise it returns
GetTranslationText(c) ==
    LET parsedSource == mapGoogleCode(arg.source)
        parsedTarget == mapGoogleCode(arg.target)
        encodedQuery == encodeURIComponent(arg.query)
    IN
    IF tooLong(encodedQuery)
    THEN /\ c \in active
         /\ pc[c] = "idle"
         /\ pc' = [pc EXCEPT ![c] = "done"]
         /\ outcome' = [outcome EXCEPT ![c] = Resolved(Null)]
         /\ UNCHANGED <<active, endpoint, params, retry, error, history, http,
                        console, response, applied, arg, returned, frames>>
    ELSE Call(c, "text", TextParams(parsedSource, parsedTarget, encodedQuery))

\* axios resolves the HTTP promise with a response carrying data
Respond(c, data) ==
    /\ pc[c] = "inflight"
    /\ pc' = [pc EXCEPT ![c] = "fulfilled"]
    /\ response' = [response EXCEPT ![c] = data]
    /\ UNCHANGED <<active, endpoint, params, retry, error, outcome, history,
                   http, console, applied, arg, returned, frames>>

\* the .then handler of doing() with getTranslationText's callback
TextThen(c) == ThenHandler(c, textCallback(response[c]))

NextText ==
    \/ \E c \in Calls : GetTranslationText(c)
    \/ \E c \in Calls, data \in ResponseData : Respond(c, data)
    \/ \E c \in Calls, err \in TextErrors : Reject(c, err)
    \/ \E c \in Calls : TextThen(c)
    \/ \E c \in Calls : CatchHandler(c)

SpecText == InitText /\ [][NextText]_vars

----------------------------------------------------------------------------
(* Properties of getTranslationText.                                       *)

\* length of the percent-encoding of a query: one character for a plain
\* one, %XX for an escaped ASCII one, %XX%XX%XX for a three-byte one
EscapedLength(q) == q.plain + 3 * q.special + 9 * q.wide

(* C11: getTranslationText resolves to null without any HTTP call when the *)
(* URL-escaped query is longer than 7500 characters; a query whose escaped *)
(* length is 7500 or less is not rejected and issues a call.               *)
C11_OversizedQueryRejected ==
    \A c \in Calls :
        (arg.kind = "text" /\ pc[c] # "idle") =>
            IF EscapedLength(arg.query) > 7500
            THEN /\ pc[c] = "done"
                 /\ outcome[c] = Resolved(Null)
                 /\ HttpCount(c) = 0
                 /\ history[c] = <<>>
            ELSE HttpCount(c) >= 1

\* a rejected query of fewer than 7500 characters whose escaped form is longer
C11_Witness ==
    \E c \in Calls :
        /\ arg.kind = "text"
        /\ pc[c] = "done"
        /\ Length(arg.query) < 7500
        /\ EscapedLength(arg.query) > 7500
        /\ HttpCount(c) = 0

\* a non-empty text without white space at either end and without the marker
CleanText(v) ==
    /\ v.type = "string"
    /\ v.text # <<>>
    /\ v.text[1] # Space
    /\ v.text[Len(v.text)] # Space
    /\ \A i \in 1..Len(v.text) : v.text[i] # Marker

\* a response without data, or whose selected text holds the marker, or
\* whose selected text is empty
AbsentLike(data) ==
    \/ ~data.present
    \/ \E n \in 1..Len(data.nodes) :
          \E i \in 1..Len(data.nodes[n]) : data.nodes[n][i] = Marker
    \/ \A n \in 1..Len(data.nodes) :
          \A i \in 1..Len(data.nodes[n]) : data.nodes[n][i] = Space

(* C12: every result of getTranslationText other than null is a non-empty  *)
(* trimmed string without the marker '#af-error-page'; a response whose    *)
(* selected text holds the marker or is empty, or that has no data, is     *)
(* handled as a missing result: retried while retries are left, null       *)
(* after.                                                                  *)
C12_ResultIsCleanText ==
    /\ [](\A c \in Calls :
            (arg.kind = "text" /\ pc[c] = "done") =>
                /\ outcome[c].state = "resolved"
                /\ outcome[c].value = Null \/ CleanText(outcome[c].value))
    /\ [][\A c \in Calls :
            ( /\ arg.kind = "text"
              /\ pc[c] = "fulfilled"
              /\ AbsentLike(response[c])
              /\ pc'[c] # "fulfilled" ) =>
                IF retry[c] < 3
                THEN pc'[c] = "inflight" /\ retry'[c] = retry[c] + 1
                ELSE pc'[c] = "done" /\ outcome'[c] = Resolved(Null)]_vars

\* a text returned on the retry that followed a response without result
C12_Witness ==
    \E c \in Calls :
        /\ arg.kind = "text"
        /\ pc[c] = "done"
        /\ Len(history[c]) = 2
        /\ history[c][1].kind = "value"
        /\ outcome[c].value.type = "string"

\* the trimmed text of the first matched element
FirstNodeText(data) == trim(data.nodes[1])

(* C13: on a response with elements of class result-container,             *)
(* getTranslationText returns the trimmed text of the first of them and of *)
(* no other, also when several match; a single element 'ganar' gives       *)
(* 'ganar' after one HTTP call.                                            *)
C13_FirstNodeOnly ==
    [][\A c \in Calls :
          ( /\ arg.kind = "text"
            /\ pc[c] = "fulfilled"
            /\ response[c].present
            /\ response[c].nodes # <<>>
            /\ CleanText(TextStr(FirstNodeText(response[c])))
            /\ pc'[c] # "fulfilled" ) =>
              /\ pc'[c] = "done"
              /\ outcome'[c] = Resolved(TextStr(FirstNodeText(response[c])))
              /\ HttpCount(c) = retry[c] + 1]_vars


\* the URL-escaped form of a query: a plain character stays, an escaped
\* ASCII character is % and two hex digits, a three-byte one is three such
EscapedOnce(q) ==
    QueryString(q.plain + 2 * q.special + 6 * q.wide,
                q.special + 3 * q.wide, 0)

\* the text requests sent so far
TextRequests == {i \in 1..Len(http) : http[i].request.path = "/m"}

(* C31: in the URL that getTranslationText sends to the text endpoint, q   *)
(* is the caller's query URL-escaped exactly once, and sl and tl are       *)
(* mapGoogleCode(source) and mapGoogleCode(target).                        *)
C31_QueryEscapedOnce ==
    \A i \in TextRequests :
        arg.kind = "text" =>
            LET url == textUrl(http[i].request.params) IN
            /\ url.q = EscapedOnce(arg.query)
            /\ url.sl = mapGoogleCode(arg.source)
            /\ url.tl = mapGoogleCode(arg.target)

----------------------------------------------------------------------------
(* getTranslationText against a provider that answers every request with   *)
(* a soft-error page or with a page without a result node.                 *)

\* a page whose selected text holds the marker, or without a result node
SoftErrorPage(data) ==
    /\ data.present
    /\ \/ data.nodes = <<>>
       \/ \E n \in 1..Len(data.nodes) :
             \E i \in 1..Len(data.nodes[n]) : data.nodes[n][i] = Marker

SoftErrorPages == {data \in ResponseData : SoftErrorPage(data)}

NextSoftError ==
    \/ \E c \in Calls : GetTranslationText(c)
    \/ \E c \in Calls, data \in SoftErrorPages : Respond(c, data)
    \/ \E c \in Calls : TextThen(c)

SpecSoftError == InitText /\ [][NextSoftError]_vars

\* the console entries of a call written with the given severity
Logged(c, sev) ==
    Cardinality({i \in 1..Len(console) :
                    console[i].call = c /\ console[i].log.sev = sev})

(* C32: when every text-endpoint response is a soft-error page (selected   *)
(* text contains '#af-error-page') or lacks a result node, each is treated *)
(* as an empty result: getTranslationText issues exactly 4 HTTP calls,     *)
(* logs 3 warnings and no error, and resolves to absent.                   *)
C32_SoftErrorPagesExhaustRetries ==
    \A c \in Calls :
        /\ HttpCount(c) <= 4
        /\ Logged(c, "error") = 0
        /\ \A i \in 1..Len(history[c]) : history[c][i] = ValueAttempt(i - 1, Null)
        /\ (pc[c] = "done" /\ HttpCount(c) > 0) =>
              /\ HttpCount(c) = 4
              /\ Logged(c, "warn") = 3
              /\ Len(console) = 3
              /\ outcome[c] = Resolved(Null)

\* four soft-error pages answered a query and the call has resolved
C32_Witness ==
    \E c \in Calls :
        /\ arg.kind = "text"
        /\ pc[c] = "done"
        /\ Len(history[c]) = 4
        /\ HttpCount(c) = 4
        /\ outcome[c] = Resolved(Null)

----------------------------------------------------------------------------
(***************************************************************************)
(* Part 4: the response extractor (utils/parser.ts).                       *)
(*                                                                         *)
(* The payload is a JSON value; the extractors read it by position with    *)
(* optional chaining.  A value is a record tagged with its JavaScript      *)
(* type.  Thrown stands for the TypeError an extractor ends with when it   *)
(* destructures or calls a method of a value that does not allow it.       *)
(***************************************************************************)

JNull == [t |-> "null"]
JUndefined == [t |-> "undefined"]
JStr(s) == [t |-> "string", s |-> s]
JNum(n) == [t |-> "number", n |-> n, nan |-> FALSE]
JNaN == [t |-> "number", n |-> 0, nan |-> TRUE]
JArr(a) == [t |-> "array", a |-> a]
JObj(o) == [t |-> "object", o |-> o]
Thrown == [t |-> "TypeError"]

\* v is null or undefined (what ?. and ?? test)
Nullish(v) == v.t \in {"null", "undefined"}

\* (variant of ToBoolean in which an empty array is falsy)
ToBoolean_emptyArrayFalsy(v) ==
    CASE v.t \in {"null", "undefined"} -> FALSE
      [] v.t = "string" -> v.s # ""
      [] v.t = "number" -> ~v.nan /\ v.n # 0
      [] v.t = "array" -> v.a # <<>>
      [] OTHER -> TRUE

\* !!v
ToBoolean(v) ==
    CASE v.t \in {"null", "undefined"} -> FALSE
      [] v.t = "string" -> v.s # ""
      [] v.t = "number" -> ~v.nan /\ v.n # 0
      [] OTHER -> TRUE

\* v[i] for a v that is neither null nor undefined: an element, a
\* character, or undefined
At(v, i) ==
    IF v.t = "array"
    THEN IF i < Len(v.a) THEN v.a[i + 1] ELSE JUndefined
    ELSE IF v.t = "string"
    THEN IF i < Len(v.s) THEN JStr(SubSeq(v.s, i + 1, i + 1)) ELSE JUndefined
    ELSE JUndefined

\* v?.[i]
Opt(v, i) == IF Nullish(v) THEN JUndefined ELSE At(v, i)

\* a ?? b
Coalesce(a, b) == IF Nullish(a) THEN b ELSE a

\* v can be destructured with an array pattern ([x, y]) => ...
Iterable(v) == v.t \in {"array", "string"}

\* the elements map and flatMap visit
Elements(v) == IF v.t = "array" THEN v.a ELSE <<>>

\* v.map(F) for a v that is neither null nor undefined, r being what F
\* gives for each element: only arrays have map, and an exception in F
\* ends the whole call
MapArr(v, r) ==
    IF v.t # "array" THEN Thrown
    ELSE IF \E i \in DOMAIN r : r[i] = Thrown THEN Thrown
    ELSE JArr(r)

RECURSIVE Flatten(_)
\* one level of flattening, as flatMap does with what its callback returned
Flatten(parts) ==
    IF parts = <<>> THEN <<>>
    ELSE (IF Head(parts).t = "array" THEN Head(parts).a ELSE <<Head(parts)>>)
             \o Flatten(Tail(parts))

RECURSIVE FilterTruthy(_)
\* .filter((item) => !!item)
FilterTruthy(a) ==
    IF a = <<>> THEN <<>>
    ELSE (IF ToBoolean(Head(a)) THEN <<Head(a)>> ELSE <<>>)
             \o FilterTruthy(Tail(a))

RECURSIVE ToStringJS(_)
RECURSIVE JoinJS(_)
\* Array.prototype.join(","): null and undefined elements give ""
JoinJS(a) ==
    IF a = <<>> THEN ""
    ELSE LET first == IF Nullish(Head(a)) THEN "" ELSE ToStringJS(Head(a)) IN
         IF Len(a) = 1 THEN first ELSE first \o "," \o JoinJS(Tail(a))

\* String(v), the property key a value is turned into by `in` and []
ToStringJS(v) ==
    CASE v.t = "string" -> v.s
      [] v.t = "number" -> IF v.nan THEN "NaN" ELSE ToString(v.n)
      [] v.t = "array" -> JoinJS(v.a)
      [] v.t = "object" -> "[object Object]"
      [] OTHER -> v.t

\* the strings of one digit and their value
DigitValue ==
    [d \in {"0", "1", "2", "3", "4"} |->
        CASE d = "0" -> 0 [] d = "1" -> 1 [] d = "2" -> 2 [] d = "3" -> 3
          [] OTHER -> 4]

RECURSIVE ToNumber(_)
\* Number(v), the operand conversion of the binary minus
ToNumber(v) ==
    CASE v.t = "number" -> v
      [] v.t = "null" -> JNum(0)
      [] v.t = "undefined" -> JNaN
      [] v.t = "string" ->
            IF v.s = "" THEN JNum(0)
            ELSE IF v.s \in DOMAIN DigitValue THEN JNum(DigitValue[v.s])
            ELSE JNaN
      [] v.t = "array" ->
            IF v.a = <<>> THEN JNum(0)
            ELSE IF Len(v.a) = 1 /\ Nullish(v.a[1]) THEN JNum(0)
            ELSE IF Len(v.a) = 1 /\ v.a[1].t \in {"number", "string", "array"}
                 THEN ToNumber(v.a[1])
            ELSE JNaN
      [] OTHER -> JNaN

\* b - a, the operands exchanged
Minus_exchanged(a, b) ==
    LET x == ToNumber(a)
        y == ToNumber(b)
    IN IF x.nan \/ y.nan THEN JNaN ELSE JNum(y.n - x.n)

\* a - b
Minus(a, b) ==
    LET x == ToNumber(a)
        y == ToNumber(b)
    IN IF x.nan \/ y.nan THEN JNaN ELSE JNum(x.n - y.n)

\* mapLingvaCode(code) for a code of any type: the key is String(code)
mapLingvaCodeOf(code) ==
    IF isKeyOf(mappings["response"], ToStringJS(code))
    THEN JStr(Get(mappings["response"], ToStringJS(code)))
    ELSE code

----------------------------------------------------------------------------
(* The extractors.  data is the 4-slot payload [source, target, detected,  *)
(* extra].                                                                 *)

\* detected([source, target, detected, extra])
detected(data) ==
    LET source == At(data, 0)
        target == At(data, 1)
        detectedSlot == At(data, 2)
        extra == At(data, 3)
        code == Coalesce(Opt(source, 2),
                Coalesce(Opt(target, 3),
                Coalesce(detectedSlot,
                Coalesce(Opt(extra, 8),
                         Opt(Opt(Opt(Opt(extra, 5), 0), 0), 3)))))
    IN IF ToBoolean(code) THEN mapLingvaCodeOf(code) ELSE JUndefined

\* typo([source])
typo(data) == Coalesce(Opt(Opt(Opt(At(data, 0), 1), 0), 4), JUndefined)

\* pronunciation.query([source])
pronunciationQuery(data) == Coalesce(Opt(At(data, 0), 0), JUndefined)

\* pronunciation.translation([, target])
pronunciationTranslation(data) ==
    Coalesce(Opt(Opt(Opt(At(data, 1), 0), 0), 1), JUndefined)

\* ([item]) => item
firstOf(x) == IF Iterable(x) THEN At(x, 0) ELSE Thrown

\* ([, item]) => item
secondOf(x) == IF Iterable(x) THEN At(x, 1) ELSE Thrown

\* (synItem) => synItem?.[0]?.map(([item]) => item)
synItemWords(synItem) ==
    LET inner == Opt(synItem, 0) IN
    IF Nullish(inner) THEN JUndefined
    ELSE MapArr(inner, [i \in DOMAIN Elements(inner) |-> firstOf(Elements(inner)[i])])

\* synList?.flatMap(...)?.filter((item) => !!item) ?? []
synonyms(synList) ==
    IF Nullish(synList) THEN JArr(<<>>)
    ELSE IF synList.t # "array" THEN Thrown
    ELSE LET parts == [i \in DOMAIN Elements(synList) |->
                          synItemWords(Elements(synList)[i])] IN
         IF \E i \in DOMAIN parts : parts[i] = Thrown THEN Thrown
         ELSE JArr(FilterTruthy(Flatten(parts)))

\* ({ 0: definition, 1: example, 4: fieldWrapper, 5: synList }) => ({ ... })
definitionEntry(entry) ==
    IF Nullish(entry) THEN Thrown
    ELSE LET syn == synonyms(At(entry, 5)) IN
         IF syn = Thrown THEN Thrown
         ELSE JObj([definition |-> At(entry, 0),
                    example |-> At(entry, 1),
                    field |-> Opt(Opt(At(entry, 4), 0), 0),
                    synonyms |-> syn])

\* ([type, defList]) => ({ type, list: defList?.map(...) ?? [] })
definitionGroup(group) ==
    IF ~Iterable(group) THEN Thrown
    ELSE LET defList == At(group, 1)
             entries == IF Nullish(defList) THEN JArr(<<>>)
                        ELSE MapArr(defList, [i \in DOMAIN Elements(defList) |->
                                                  definitionEntry(Elements(defList)[i])])
         IN IF entries = Thrown THEN Thrown
            ELSE JObj([type |-> At(group, 0), list |-> entries])

\* list.definitions({ 3: extra })
definitions(data) ==
    LET groups == Opt(Opt(At(data, 3), 1), 0) IN
    IF Nullish(groups) THEN JArr(<<>>)
    ELSE MapArr(groups, [i \in DOMAIN Elements(groups) |->
                            definitionGroup(Elements(groups)[i])])

\* list.examples({ 3: extra })
examples(data) ==
    LET items == Opt(Opt(At(data, 3), 2), 0) IN
    IF Nullish(items) THEN JArr(<<>>)
    ELSE MapArr(items, [i \in DOMAIN Elements(items) |-> secondOf(Elements(items)[i])])

\* list.similar without its ?? []
similar_noDefault(data) == Opt(Opt(At(data, 3), 3), 0)

\* list.similar({ 3: extra })
similar(data) == Coalesce(Opt(Opt(At(data, 3), 3), 0), JArr(<<>>))

\* ([word, article, meanings, frequency]) => ({ ... })
translationEntry(entry) ==
    IF ~Iterable(entry) THEN Thrown
    ELSE JObj([word |-> At(entry, 0),
               article |-> Coalesce(At(entry, 1), JUndefined),
               meanings |-> At(entry, 2),
               frequency |-> Minus(JNum(4), At(entry, 3))])

\* ([type, transList]) => ({ type, list: transList?.map(...) ?? [] })
translationGroup(group) ==
    IF ~Iterable(group) THEN Thrown
    ELSE LET transList == At(group, 1)
             entries == IF Nullish(transList) THEN JArr(<<>>)
                        ELSE MapArr(transList, [i \in DOMAIN Elements(transList) |->
                                                    translationEntry(Elements(transList)[i])])
         IN IF entries = Thrown THEN Thrown
            ELSE JObj([type |-> At(group, 0), list |-> entries])

\* list.translations({ 3: extra })
translations(data) ==
    LET groups == Opt(Opt(At(data, 3), 5), 0) IN
    IF Nullish(groups) THEN JArr(<<>>)
    ELSE MapArr(groups, [i \in DOMAIN Elements(groups) |->
                            translationGroup(Elements(groups)[i])])

----------------------------------------------------------------------------
(* The payloads the extractors are applied to: every slot is taken from a  *)
(* set that holds the shape the upstream sends, its absence, and shapes    *)
(* the extractor does not expect at each depth.                            *)

\* raw frequency ranks of an extra translation run from 0 to MaxRank
MaxRank == 4
Ranks == 0..MaxRank

\* the extra block: an array of 9 slots, all null but one
ExtraSlots == 9
ExtraWith(slot, v) == JArr([i \in 1..ExtraSlots |-> IF i = slot + 1 THEN v ELSE JNull])

SourceInfos ==
    { JNull,
      JArr(<<>>),
      JStr("es"),
      JArr(<<JStr("ga-nar"),
             JArr(<<JArr(<<JNull, JNull, JNull, JNull, JStr("ganar")>>)>>),
             JStr("es")>>),
      JArr(<<JNull, JArr(<<JNull>>), JStr("zh-CN")>>) }

TargetInfos ==
    { JNull,
      JNum(0),
      JArr(<<JArr(<<JArr(<<JNull, JStr("win")>>)>>), JNull, JNull, JStr("en")>>),
      JArr(<<JNull, JNull, JNull, JStr("zh-TW")>>) }

DetectedSlots == {JNull, JStr(""), JStr("fr")}

\* one definition entry: [definition, example, , , [[field]], synList]
DefinitionEntryOf(synList) ==
    JArr(<<JStr("to win"), JStr("ganar un premio"), JNull, JNull,
           JArr(<<JArr(<<JStr("sport")>>)>>), synList>>)

\* synList: each item holds at [0] a list of [word] arrays
SynLists ==
    { JNull,
      JArr(<<>>),
      JArr(<<JArr(<<JArr(<<JArr(<<JStr("earn")>>), JArr(<<JStr("")>>)>>)>>)>>),
      JArr(<<JNull, JArr(<<JArr(<<JArr(<<JStr("gain")>>)>>)>>)>>),
      JArr(<<JArr(<<JArr(<<JNull>>)>>)>>),
      JArr(<<JArr(<<JStr("earn")>>)>>),
      JNum(1) }

\* what extra[1] holds: [groups] with groups a list of [type, defList]
DefinitionsSlots ==
    { JArr(<<>>), JArr(<<JNull>>), JArr(<<JArr(<<>>)>>), JArr(<<JStr("verb")>>),
      JArr(<<JArr(<<JNull>>)>>),
      JArr(<<JArr(<<JArr(<<JStr("verb")>>)>>)>>),
      JArr(<<JArr(<<JArr(<<JStr("verb"), JArr(<<JNull>>)>>)>>)>>),
      JArr(<<JArr(<<JArr(<<JStr("verb"), JArr(<<JArr(<<>>)>>)>>)>>)>>),
      JArr(<<JArr(<<JArr(<<JStr("verb"), JStr("to win")>>)>>)>>) }
    \cup { JArr(<<JArr(<<JArr(<<JStr("verb"), JArr(<<DefinitionEntryOf(syn)>>)>>)>>)>>) :
             syn \in SynLists }

\* what extra[2] holds: [items] with items a list of [ , example]
ExamplesSlots ==
    { JArr(<<>>), JArr(<<JNull>>), JArr(<<JArr(<<>>)>>), JNum(2),
      JArr(<<JArr(<<JArr(<<JNull, JStr("ganar <b>tiempo</b>")>>), JArr(<<JNull>>)>>)>>),
      JArr(<<JArr(<<JNull>>)>>),
      JArr(<<JStr("ganar")>>) }

\* what extra[3] holds: [words]
SimilarSlots ==
    { JArr(<<>>), JArr(<<JNull>>), JArr(<<JArr(<<>>)>>),
      JArr(<<JArr(<<JStr("vencer"), JStr("lograr")>>)>>),
      JStr("vencer") }

\* one extra translation: [word, article, meanings, frequency]
TranslationEntries ==
    { JArr(<<JStr("win"), JNull, JArr(<<JStr("ganar"), JStr("vencer")>>), JNum(r)>>) :
        r \in Ranks }
    \cup { JNull, JArr(<<>>), JStr("win"),
           JArr(<<JStr("gain"), JStr("the"), JArr(<<JStr("ganar")>>), JNull>>),
           JArr(<<JStr("victoria"), JStr("la"), JArr(<<JStr("victory")>>), JNum(1)>>),
           JArr(<<JStr("earn"), JNull, JNull, JStr("2")>>) }

\* what extra[5] holds: [groups] with groups a list of [type, transList, , code]
TranslationsSlots ==
    { JArr(<<>>), JArr(<<JNull>>), JArr(<<JArr(<<>>)>>), JArr(<<JStr("verb")>>),
      JArr(<<JArr(<<JNull>>)>>),
      JArr(<<JArr(<<JArr(<<JStr("verb")>>)>>)>>),
      JArr(<<JArr(<<JArr(<<JStr("verb"), JNum(7)>>)>>)>>),
      JArr(<<JArr(<<JArr(<<JStr("verb"), JNull, JNull, JStr("zh-TW")>>)>>)>>) }
    \cup { JArr(<<JArr(<<JArr(<<JStr("verb"), JArr(<<e>>)>>)>>)>>) :
             e \in TranslationEntries }

\* what extra[8] holds: a language code
FallbackCodes == {JStr("es"), JStr("zh-CN"), JNum(0), JArr(<<JStr("zh-TW")>>)}

Extras ==
    { JNull, JArr(<<>>), JStr(""), JStr("extra") }
    \cup { ExtraWith(1, d) : d \in DefinitionsSlots }
    \cup { ExtraWith(2, x) : x \in ExamplesSlots }
    \cup { ExtraWith(3, w) : w \in SimilarSlots }
    \cup { ExtraWith(5, t) : t \in TranslationsSlots }
    \cup { ExtraWith(8, c) : c \in FallbackCodes }

\* the 4-slot payloads [source, target, detected, extra], and the payloads
\* whose extra slot is missing
Payloads ==
    { JArr(<<s, t, d, e>>) :
        s \in SourceInfos, t \in TargetInfos, d \in DetectedSlots, e \in Extras }
    \cup { JArr(<<s, t, d>>) :
        s \in SourceInfos, t \in TargetInfos, d \in DetectedSlots }

PayloadArg(data) == [kind |-> "payload", data |-> data]

Extractors ==
    { "detected", "typo", "pronunciation.query", "pronunciation.translation",
      "list.definitions", "list.examples", "list.similar", "list.translations" }

InitParse ==
    /\ TransportIdle
    /\ applied = "none"
    /\ arg \in {PayloadArg(data) : data \in Payloads}
    /\ returned = NoArg

\* one extractor is applied to the payload and what it returned, or that
\* it threw, is kept
Extract(name, result) ==
    /\ applied = "none"
    /\ applied' = name
    /\ returned' = Returned(result, NoMember)
    /\ UNCHANGED <<arg, transportVars>>

ApplyDetected == Extract("detected", detected(arg.data))

ApplyTypo == Extract("typo", typo(arg.data))

ApplyPronunciationQuery == Extract("pronunciation.query", pronunciationQuery(arg.data))

ApplyPronunciationTranslation ==
    Extract("pronunciation.translation", pronunciationTranslation(arg.data))

ApplyDefinitions == Extract("list.definitions", definitions(arg.data))

ApplyExamples == Extract("list.examples", examples(arg.data))

ApplySimilar == Extract("list.similar", similar(arg.data))

ApplyTranslations == Extract("list.translations", translations(arg.data))

\* typeof value === "object"
isObject(value) == value.t \in {"object", "array", "null"}

RECURSIVE undefinedFields(_)
\* undefinedFields(obj): the falsy items or entries are dropped, and the
\* objects and arrays among the kept ones are processed in turn
undefinedFields(obj) ==
    IF obj.t = "array"
    THEN LET kept == FilterTruthy(obj.a) IN
         JArr([i \in DOMAIN kept |->
                 IF isObject(kept[i]) THEN undefinedFields(kept[i]) ELSE kept[i]])
    ELSE LET keys == {k \in DOMAIN obj.o : ToBoolean(obj.o[k])} IN
         JObj([k \in keys |->
                 IF isObject(obj.o[k]) THEN undefinedFields(obj.o[k]) ELSE obj.o[k]])

\* the final normalisation reaches the list of extra translations inside the
\* assembled result: undefinedFields(list.translations(data))
NormalizeTranslations ==
    /\ applied = "list.translations"
    /\ returned.value # Thrown
    /\ applied' = "undefinedFields(list.translations)"
    /\ returned' = Returned(undefinedFields(returned.value), returned.value)
    /\ UNCHANGED <<arg, transportVars>>

NextParse ==
    \/ NormalizeTranslations
    \/ ApplyDetected
    \/ ApplyTypo
    \/ ApplyPronunciationQuery
    \/ ApplyPronunciationTranslation
    \/ ApplyDefinitions
    \/ ApplyExamples
    \/ ApplySimilar
    \/ ApplyTranslations

SpecParse == InitParse /\ [][NextParse]_vars

\* the extractor applied in this state, if any, ended with an exception
ExtractorThrew == applied \in Extractors /\ returned.value = Thrown

\* C20: every extractor (detected, typo, pronunciation.query,
\* pronunciation.translation, list.definitions, list.examples, list.similar,
\* list.translations) returns without an exception on every 4-slot payload,
\* whatever positional element of it is missing, null or of another shape,
\* a null group or a null list entry inside the definitions or the extra
\* translations included.
C20_ExtractorsNeverThrow == ~ExtractorThrew

\* the extra slot of the payload is missing, null or empty
EmptyExtra(data) ==
    \/ Len(data.a) < 4
    \/ data.a[4] \in {JNull, JArr(<<>>), JStr("")}

ListExtractors ==
    {"list.definitions", "list.examples", "list.similar", "list.translations"}

\* C21: on a payload whose extra slot is empty, null or missing,
\* list.definitions, list.examples, list.similar and list.translations each
\* return the empty list, neither undefined nor an exception.
C21_EmptyExtraGivesEmptyLists ==
    (applied \in ListExtractors /\ EmptyExtra(arg.data))
        => returned.value = JArr(<<>>)

C21_Witness ==
    /\ applied = "list.similar"
    /\ Len(arg.data.a) < 4
    /\ returned.value = JArr(<<>>)

----------------------------------------------------------------------------
(* Final normalisation of the assembled result (undefinedFields).          *)

\* longest array in the trees given to undefinedFields
MaxItems == 1

\* scalar field values: undefined, null, the empty string, a populated
\* string and the number 0
Leaves == {JUndefined, JNull, JStr(""), JStr("ganar"), JNum(0)}

\* the objects and arrays whose fields and items are taken from S
NodesOver(S) ==
    { JObj([a |-> x, b |-> y]) : x \in S, y \in S }
    \cup { JArr(s) : s \in SeqsUpTo(S, MaxItems) }

\* an object holding an empty array, an undefined field and a populated
\* field, alone and nested in an object and in an array
ExampleTree ==
    JObj([empty |-> JArr(<<>>), missing |-> JUndefined, populated |-> JStr("ganar")])

ExampleTrees ==
    { ExampleTree,
      JObj([a |-> ExampleTree, b |-> JStr("ganar")]),
      JArr(<<ExampleTree>>) }

\* arrays of several distinct items, some of them removed, alone and nested
OrderedTrees ==
    { JArr(<<JStr("ganar"), JNull, JStr("vencer"), JStr(""), JNum(1)>>),
      JArr(<<JArr(<<JUndefined, JStr("vencer"), JStr("ganar")>>), JNum(0),
             JObj([a |-> JStr("ganar"), b |-> JNull]), JStr("ganar")>>),
      JObj([a |-> JArr(<<JNum(1), JNull, JNum(2), JArr(<<JNull>>), JNum(3)>>),
            b |-> JUndefined]) }

\* the trees undefinedFields is applied to: two levels of nesting
Trees == NodesOver(Leaves \cup NodesOver(Leaves)) \cup ExampleTrees \cup OrderedTrees

TreeArg(tree) == [kind |-> "tree", tree |-> tree]

InitClean ==
    /\ TransportIdle
    /\ applied = "none"
    /\ arg \in {TreeArg(tree) : tree \in Trees}
    /\ returned = NoArg

\* undefinedFields(obj)
ApplyUndefinedFields ==
    /\ applied = "none"
    /\ applied' = "undefinedFields"
    /\ returned' = Returned(undefinedFields(arg.tree), NoMember)
    /\ UNCHANGED <<arg, transportVars>>

\* undefinedFields(undefinedFields(obj))
ApplyUndefinedFieldsAgain ==
    /\ applied = "undefinedFields"
    /\ applied' = "undefinedFields twice"
    /\ returned' = Returned(undefinedFields(returned.value), returned.value)
    /\ UNCHANGED <<arg, transportVars>>

NextClean == ApplyUndefinedFields \/ ApplyUndefinedFieldsAgain

SpecClean == InitClean /\ [][NextClean]_vars

\* a value the normalisation is to remove: undefined, null, the empty
\* string or an empty array
Blank(v) == v \in {JUndefined, JNull, JStr(""), JArr(<<>>)}

RECURSIVE NoBlank(_)
\* no field or item of the tree, at any depth, is blank
NoBlank(v) ==
    CASE v.t = "array" ->
            \A i \in DOMAIN v.a : ~Blank(v.a[i]) /\ NoBlank(v.a[i])
      [] v.t = "object" ->
            \A k \in DOMAIN v.o : ~Blank(v.o[k]) /\ NoBlank(v.o[k])
      [] OTHER -> TRUE

RECURSIVE NonBlankItems(_)
\* the items of a sequence that are not blank, in order
NonBlankItems(s) ==
    IF s = <<>> THEN <<>>
    ELSE (IF Blank(Head(s)) THEN <<>> ELSE <<Head(s)>>) \o NonBlankItems(Tail(s))

RECURSIVE Retains(_, _)
\* every populated field and item of the tree before is in the tree after,
\* at every depth
Retains(before, after) ==
    CASE before.t = "array" ->
            /\ after.t = "array"
            /\ Len(after.a) = Len(NonBlankItems(before.a))
            /\ \A i \in DOMAIN after.a :
                  Retains(NonBlankItems(before.a)[i], after.a[i])
      [] before.t = "object" ->
            /\ after.t = "object"
            /\ \A k \in DOMAIN before.o :
                  ~Blank(before.o[k]) =>
                      (k \in DOMAIN after.o /\ Retains(before.o[k], after.o[k]))
      [] OTHER -> after = before

\* C22: undefinedFields returns a tree in which, at every depth of objects
\* and arrays, every field that is undefined, null, the empty string or an
\* empty array has been removed and every populated field is retained; of
\* an object holding an empty array, an undefined field and a populated
\* field only the populated field remains.
C22_StripsBlankFields ==
    applied = "undefinedFields" =>
        /\ NoBlank(returned.value)
        /\ Retains(arg.tree, returned.value)
        /\ (arg.tree = ExampleTree =>
                returned.value = JObj([populated |-> JStr("ganar")]))

\* the groups of extra translations in the payload, extra[5][0]
RawTranslationGroups(data) == Opt(Opt(At(data, 3), 5), 0)

\* entry is an extra translation [word, article, meanings, rank] with a
\* numeric rank
RankedEntry(entry) ==
    entry.t = "array" /\ Len(entry.a) = 4 /\ entry.a[4].t = "number"

DetectedCandidates(data) ==
    << Opt(At(data, 0), 2),
       Opt(At(data, 1), 3),
       At(data, 2),
       Opt(At(data, 3), 8),
       Opt(Opt(Opt(Opt(At(data, 3), 5), 0), 0), 3) >>

\* the positions of the candidates that are present
PresentCandidates(data) ==
    {i \in DOMAIN DetectedCandidates(data) : ~Nullish(DetectedCandidates(data)[i])}

\* the smallest number of a non-empty set of numbers
Least(S) == CHOOSE i \in S : \A j \in S : i <= j

\* the internal code of a provider code
InternalCodeOf(code) ==
    IF code \in {"zh-CN", "zh-TW"} THEN "zh" ELSE code

\* C24: detected returns the provider->internal mapping of the first
\* present value, in this order, among source[2], target[3], the top-level
\* detected slot, extra[8] and extra[5][0][0][3]; it returns absent only
\* when none of the five is present.
C24_FirstPresentCandidateMapped ==
    applied = "detected" =>
        LET present == PresentCandidates(arg.data) IN
        IF present = {} THEN returned.value = JUndefined
        ELSE LET first == DetectedCandidates(arg.data)[Least(present)] IN
             first.t = "string" => returned.value = JStr(InternalCodeOf(first.s))

----------------------------------------------------------------------------
(* Two logical calls in flight at the same time.                           *)

\* what the attempts of the two calls end with
PairErrors == {NetworkError, HttpError(404)}
PairResults ==
    {[kind |-> "return", value |-> Str(0)], [kind |-> "return", value |-> Str(1)]}

InitPair ==
    /\ active = Calls
    /\ pc = [c \in Calls |-> "idle"]
    /\ endpoint = [c \in Calls |-> "info"]
    /\ params = [c \in Calls |-> 1]
    /\ retry = [c \in Calls |-> 0]
    /\ error = [c \in Calls |-> NoError]
    /\ outcome = [c \in Calls |-> Pending]
    /\ history = [c \in Calls |-> <<>>]
    /\ http = <<>>
    /\ console = <<>>
    /\ response = [c \in Calls |-> NoData]
    /\ frames = <<>>
    /\ applied = "none"
    /\ arg = NoArg
    /\ returned = NoArg

\* the parameters each of the two calls is made with
PairParams == [c \in Calls |-> IF c = "a" THEN 1 ELSE NumParams]

NextPair ==
    \/ \E c \in Calls : Call(c, "text", PairParams[c])
    \/ \E c \in Calls : Fulfil(c)
    \/ \E c \in Calls, err \in PairErrors : Reject(c, err)
    \/ \E c \in Calls, res \in PairResults : ThenHandler(c, res)
    \/ \E c \in Calls : CatchHandler(c)

SpecPair == InitPair /\ [][NextPair]_vars

\* an attempt after which the wrapper makes another one while it may
RetryableAttempt(a) ==
    EmptyAttempt(a) \/ ConnectionFailure(a) \/ StatusFailure(a, 500..599)

\* the attempts of call c alone account for where it stands: every attempt
\* but the last was retryable, one HTTP call was issued per attempt, and a
\* call that has resolved did so on a final outcome or on its own 4th
\* attempt, with the value of its own last attempt or absent
OwnAttemptsDecide(c) ==
    LET h == history[c] IN
    /\ \A i \in 1..(Len(h) - 1) : RetryableAttempt(h[i])
    /\ \A i \in 1..Len(h) : h[i].retry = i - 1
    /\ pc[c] = "done" =>
          /\ outcome[c].state = "resolved"
          /\ HttpCount(c) = Len(h)
          /\ RetryableAttempt(h[Len(h)]) => Len(h) = 4
          /\ PopulatedAttempt(h[Len(h)]) => outcome[c].value = h[Len(h)].value
          /\ FailedAttempt(h[Len(h)]) => outcome[c].value = Null

\* C25: two logical calls in flight at the same time do not affect each
\* other under any interleaving of their attempts: each has its own attempt
\* counter and parameters, issues at most 4 HTTP calls, and its result
\* depends only on the outcomes of its own attempts.
C25_CallsAreIndependent ==
    /\ \A c \in Calls : HttpCount(c) <= 4 /\ OwnAttemptsDecide(c)
    /\ \A i \in 1..Len(http) :
          /\ http[i].request.params = params[http[i].call]
          /\ http[i].endpoint = endpoint[http[i].call]

\* the two calls alternate their HTTP calls; "a" succeeds on its 4th attempt
\* and "b", with other parameters, fails on all 4 of its own
C25_Witness ==
    /\ pc["a"] = "done" /\ pc["b"] = "done"
    /\ HttpCount("a") = 4 /\ HttpCount("b") = 4
    /\ \A i \in 1..(Len(http) - 1) : http[i].call # http[i + 1].call
    /\ params["a"] # params["b"]
    /\ outcome["a"] = Resolved(Str(1))
    /\ outcome["b"] = Resolved(Null)
    /\ \A i \in 1..4 : FailedAttempt(history["b"][i])

\* the HTTP calls issued for logical call c, in order
HttpOf(c) == SelectSeq(http, LAMBDA h : h.call = c)

\* the HTTP method each endpoint is called with
MethodOf(e) == IF e = "info" THEN "POST" ELSE "GET"

\* C26: every retry of a logical call re-issues the call to the same
\* endpoint with the same HTTP method (POST for info, GET for text and
\* audio) and with the parameters of the first attempt, and the attempt
\* counter of the n-th HTTP call of a logical call is n-1, within 0..3.
C26_RetriesRepeatTheRequest ==
    \A c \in Calls :
        \A n \in 1..Len(HttpOf(c)) :
            /\ HttpOf(c)[n].retry = n - 1
            /\ HttpOf(c)[n].retry \in 0..3
            /\ HttpOf(c)[n].endpoint = HttpOf(c)[1].endpoint
            /\ HttpOf(c)[n].request.method = MethodOf(HttpOf(c)[1].endpoint)
            /\ HttpOf(c)[n].request.path = HttpOf(c)[1].request.path
            /\ HttpOf(c)[n].request.params = HttpOf(c)[1].request.params

\* an info call that was re-issued three times, after an empty result and
\* after a failure
C26_Witness ==
    \E c \in Calls :
        /\ Len(HttpOf(c)) = 4
        /\ HttpOf(c)[4].endpoint = "info"
        /\ HttpOf(c)[4].request.method = "POST"
        /\ HttpOf(c)[4].request.params = NumParams
        /\ \E i, j \in 1..Len(history[c]) :
              EmptyAttempt(history[c][i]) /\ FailedAttempt(history[c][j])

\* the states of a logical call: Pending while an attempt is in flight,
\* Retrying while a handler of a settled attempt runs, Success or Failed
\* once the caller's promise has settled
Settled(c) == outcome[c].state # "pending"
AttemptInFlight(c) == pc[c] = "inflight"
AttemptSettled(c) == pc[c] \in {"fulfilled", "rejected"}

\* HTTP calls and attempts of call c agree: one call per attempt, the last
\* one not yet handled while the call is Pending or Retrying
OneAttemptAtATime(c) ==
    /\ (AttemptInFlight(c) \/ AttemptSettled(c)) =>
          (~Settled(c) /\ HttpCount(c) = Len(history[c]) + 1)
    /\ pc[c] \in {"idle", "done"} => HttpCount(c) = Len(history[c])
    /\ Settled(c) <=> pc[c] = "done"

\* the steps of call c: an HTTP call is issued only when the call starts or
\* when the previous attempt has settled, one at a time, and never after
\* the call has resolved, whose outcome stays
StepsOfStateMachine(c) ==
    /\ HttpCount(c)' > HttpCount(c) =>
          /\ HttpCount(c)' = HttpCount(c) + 1
          /\ pc[c] = "idle" \/ AttemptSettled(c)
          /\ AttemptInFlight(c)'
    /\ AttemptInFlight(c) => (AttemptInFlight(c)' \/ AttemptSettled(c)')
    /\ Settled(c) =>
          /\ HttpCount(c)' = HttpCount(c)
          /\ outcome'[c] = outcome[c]
          /\ pc'[c] = pc[c]

\* C27: a logical call follows Pending -> {Success | Retrying -> Pending |
\* Failed}: at most one HTTP attempt of the call is in flight at any time (a
\* retry is issued only after the previous attempt has settled), and once
\* the call has resolved no further HTTP call is issued for it.
C27_StateMachine ==
    /\ [](\A c \in Calls : OneAttemptAtATime(c))
    /\ [][\A c \in Calls : StepsOfStateMachine(c)]_vars

\* a call that went Pending -> Retrying -> Pending -> Success
C27_Witness ==
    \E c \in Calls :
        /\ Settled(c)
        /\ outcome[c] = Resolved(Str(1))
        /\ HttpCount(c) = 2
        /\ Len(history[c]) = 2
        /\ FailedAttempt(history[c][1])

----------------------------------------------------------------------------
(* Progress of a logical call.  Every HTTP attempt settles (axios resolves *)
(* or rejects, by its timeout at the latest) and the event loop runs every *)
(* handler that is due.                                                    *)

\* attempts of one call the model follows; the wrapper stops well before
AttemptCap == 5

LiveErrors == {NetworkError, HttpError(404), HttpError(503)}
LiveResults ==
    {[kind |-> "return", value |-> Str(0)], [kind |-> "return", value |-> Str(1)],
     [kind |-> "throw", value |-> Undefined]}

\* the attempt of call c in flight settles
Settle(c) == Fulfil(c) \/ \E err \in LiveErrors : Reject(c, err)

\* the handler that is due for call c runs
Handle(c) ==
    /\ HttpCount(c) < AttemptCap
    /\ \/ \E res \in LiveResults : ThenHandler(c, res)
       \/ CatchHandler(c)

NextLive ==
    \/ \E c \in Calls, e \in Endpoint, p \in Params : Call(c, e, p)
    \/ \E c \in Calls : Settle(c)
    \/ \E c \in Calls : Handle(c)

Fairness == \A c \in Calls : WF_vars(Settle(c)) /\ WF_vars(Handle(c))

SpecLive == Init /\ [][NextLive]_vars /\ Fairness

\* C28: provided every HTTP attempt eventually settles, every logical call
\* eventually resolves: under no sequence of attempt outcomes does the
\* wrapper retry forever or leave the caller's promise pending.
C28_EveryCallResolves ==
    \A c \in Calls : (HttpCount(c) > 0) ~> Settled(c)

\* a call that resolved after its attempts failed, returned nothing and
\* threw in turn
C28_Witness ==
    \E c \in Calls :
        /\ Settled(c)
        /\ HttpCount(c) = 4
        /\ \E i, j \in 1..Len(history[c]) :
              /\ EmptyAttempt(history[c][i])
              /\ history[c][j].kind = "error"
              /\ history[c][j].error = CallbackError

\* an attempt whose response was received and whose callback threw
CallbackThrew(a) == a.kind = "error" /\ a.error.origin = "callback"

\* C29: if the post-processing function throws while handling an attempt's
\* response, the wrapper does not reject: it logs an error and re-issues the
\* call while fewer than 3 retries have been made, as after a connection
\* failure, and resolves to absent after 4 HTTP calls if the function
\* throws on every attempt.
C29_CallbackExceptionIsRetried ==
    \A c \in Calls :
        /\ (\E i \in 1..Len(history[c]) : CallbackThrew(history[c][i])) =>
              outcome[c].state \in {"pending", "resolved"}
        /\ \A k \in 1..Len(history[c]) :
              CallbackThrew(history[c][k]) =>
                 /\ LogCount(c, "error") >= 1
                 /\ k <= 3 => HttpCount(c) >= k + 1
        /\ (pc[c] = "done" /\ FirstAttempts(c, 1, CallbackThrew)
              /\ \A i \in 1..Len(history[c]) : CallbackThrew(history[c][i])) =>
                 /\ HttpCount(c) = 4
                 /\ LogCount(c, "error") = 4
                 /\ outcome[c] = Resolved(Null)

\* a finished call whose callback threw on each of the 4 responses
C29_Witness ==
    \E c \in Calls :
        /\ pc[c] = "done"
        /\ FirstAttempts(c, 4, CallbackThrew)
        /\ HttpCount(c) = 4
        /\ outcome[c] = Resolved(Null)

----------------------------------------------------------------------------
(***************************************************************************)
(* The earlier retry wrapper kept in the source (utils/request.ts, lines   *)
(* 1-167), which logs and rethrows:                                        *)
(*                                                                         *)
(*   promise.then(callback)                                                *)
(*          .catch(error => ... retry or throw handledError)               *)
(*          .then(result => isEmpty(result) && retry < 3 ? retry : result) *)
(*                                                                         *)
(* A handler that retries returns the promise of a nested request(); the   *)
(* invocation waits for it.  frames holds the invocations that wait, the   *)
(* innermost last, each with its retry argument and the handler it is in.  *)
(***************************************************************************)

\* timeout of the earlier retrieve()
LegacyTimeout == 10000

\* validateStatus: (status) => status < 500
validateStatus(status) == status < 500

\* the earlier retrieve(endpoint, params)
retrieveRethrowing(e, p) ==
    IF e = "info" THEN
        [threw |-> FALSE, message |-> <<>>,
         request |-> [method |-> "POST",
                      path |-> "/_/TranslateWebserverUi/data/batchexecute",
                      params |-> p, timeout |-> LegacyTimeout,
                      contentType |-> "application/x-www-form-urlencoded",
                      responseType |-> "default"]]
    ELSE IF e = "text" THEN
        [threw |-> FALSE, message |-> <<>>,
         request |-> [method |-> "GET", path |-> "/m",
                      params |-> p, timeout |-> LegacyTimeout,
                      contentType |-> "none", responseType |-> "default"]]
    ELSE IF e = "audio" THEN
        [threw |-> FALSE, message |-> <<>>,
         request |-> [method |-> "GET", path |-> "/translate_tts",
                      params |-> p, timeout |-> LegacyTimeout,
                      contentType |-> "none", responseType |-> "arraybuffer"]]
    ELSE invalidEndpoint_bare(e)

\* the rejections of the HTTP promise: no response, or a status that
\* validateStatus refuses
RethrowingErrors ==
    {NetworkError, SetupError} \cup {HttpError(s) : s \in {t \in Statuses : ~validateStatus(t)}}

\* isRetryableError(error)
isRetryableError(err) ==
    \/ err.response = <<>>
    \/ err.response[1] >= 500
    \/ err.response[1] = 429

\* the earlier isEmpty(item)
isEmptyRethrowing(item) ==
    ~Truthy(item) \/ (item.type = "array" /\ item.len <= 0)

\* the two console.error calls of handleAxiosError(error, endpoint, retry)
handleAxiosErrorLogs(e, r, err) ==
    << [sev |-> "error",
        text |-> IF err.response # <<>> THEN "Response error:"
                 ELSE IF err.request THEN "Request error:" ELSE "Setup error:",
        endpoint |-> e, status |-> err.response, attempt |-> <<r>>],
       [sev |-> "error", text |-> "Request config:", endpoint |-> e,
        status |-> <<>>, attempt |-> <<>>] >>

\* the message of the Error handleAxiosError returns
handledError(e, err) ==
    IF err.response # <<>> THEN
        IF err.response[1] = 429 THEN <<"Rate limit exceeded. Please try again later.">>
        ELSE IF err.response[1] = 403 THEN <<"Access forbidden. Check your permissions.">>
        ELSE IF err.response[1] = 404 THEN <<"Resource not found.">>
        ELSE IF err.response[1] >= 500 THEN <<"Server error. Please try again.">>
        ELSE <<"Server error (status)">>
    ELSE IF err.request THEN <<"No response received from server">>
    ELSE <<"Request setup error">>

\* console.log(`Retrying ${endpoint} request (attempt ${retry + 1}/3)`)
retryLog(e, r) ==
    [sev |-> "log", text |-> "Retrying request", endpoint |-> e,
     status |-> <<>>, attempt |-> <<r + 1>>]

\* an invocation request(endpoint, r): waiting for its own HTTP attempt
\* ("attempt"), for the retry its .catch handler returned ("catch"), or for
\* the retry its last .then handler returned ("then")
Frame(r, waiting) == [retry |-> r, waiting |-> waiting]

\* the invocation on top of fs starts a retry from the handler named
callRetry(fs, handler) ==
    LET top == fs[Len(fs)] IN
    Append([fs EXCEPT ![Len(fs)] = Frame(top.retry, handler)],
           Frame(top.retry + 1, "attempt"))

RECURSIVE settleFrames(_, _)
\* the innermost invocation has settled with res; fs are the invocations
\* that wait for it.  One that waits in its .catch handler passes a value
\* on to its last .then, which retries once more on an empty value; a
\* rejection, and everything awaited by a last .then, is passed on as it is.
settleFrames(fs, res) ==
    IF fs = <<>> THEN [frames |-> <<>>, result |-> res, retried |-> FALSE]
    ELSE LET top == fs[Len(fs)] IN
         IF /\ top.waiting = "catch"
            /\ res.state = "resolved"
            /\ isEmptyRethrowing(res.value)
            /\ canRetry(top.retry)
         THEN [frames |-> callRetry(fs, "then"), result |-> Pending, retried |-> TRUE]
         ELSE settleFrames(SubSeq(fs, 1, Len(fs) - 1),
                           IF res.state = "resolved"
                           THEN Resolved(OrNull(res.value)) ELSE res)

\* request(endpoint).with(params).doing(callback) of the earlier wrapper
RethrowingCall(c, e, p) ==
    /\ c \in active
    /\ pc[c] = "idle"
    /\ endpoint' = [endpoint EXCEPT ![c] = e]
    /\ params' = [params EXCEPT ![c] = p]
    /\ LET rv == retrieveRethrowing(e, p) IN
         IF rv.threw
         THEN /\ pc' = [pc EXCEPT ![c] = "done"]
              /\ outcome' = [outcome EXCEPT ![c] = Threw(rv.message)]
              /\ UNCHANGED <<http, frames>>
         ELSE /\ pc' = [pc EXCEPT ![c] = "inflight"]
              /\ outcome' = outcome
              /\ http' = Append(http, [call |-> c, retry |-> 0, endpoint |-> e,
                                       request |-> rv.request])
              /\ frames' = <<Frame(0, "attempt")>>
    /\ UNCHANGED <<active, retry, error, history, console, response,
                   applied, arg, returned>>

\* what follows a handler of the innermost invocation: the HTTP call of the
\* retry it started, or the settling of the caller's promise
AfterHandler(c, next) ==
    IF next.retried
    THEN LET r == next.frames[Len(next.frames)].retry IN
         /\ frames' = next.frames
         /\ pc' = [pc EXCEPT ![c] = "inflight"]
         /\ retry' = [retry EXCEPT ![c] = r]
         /\ http' = Append(http,
               HttpEntry(c, r, retrieveRethrowing(endpoint[c], params[c]).request))
         /\ outcome' = outcome
    ELSE /\ frames' = <<>>
         /\ pc' = [pc EXCEPT ![c] = "done"]
         /\ outcome' = [outcome EXCEPT ![c] = next.result]
         /\ UNCHANGED <<retry, http>>

\* .then(callback) and, when callback returned, the last .then
RethrowingThen(c, res) ==
    /\ pc[c] = "fulfilled"
    /\ frames # <<>>
    /\ IF res.kind = "throw"
       THEN /\ pc' = [pc EXCEPT ![c] = "rejected"]
            /\ error' = [error EXCEPT ![c] = CallbackError]
            /\ UNCHANGED <<retry, outcome, history, http, console, frames>>
       ELSE /\ history' = [history EXCEPT
                              ![c] = Append(@, ValueAttempt(retry[c], res.value))]
            /\ AfterHandler(c,
                  IF isEmptyRethrowing(res.value) /\ canRetry(retry[c])
                  THEN [frames |-> callRetry(frames, "then"), result |-> Pending,
                        retried |-> TRUE]
                  ELSE settleFrames(SubSeq(frames, 1, Len(frames) - 1),
                                    Resolved(OrNull(res.value))))
            /\ UNCHANGED <<error, console>>
    /\ UNCHANGED <<active, endpoint, params, response, applied, arg, returned>>

\* .catch((error) => { ... }) of the earlier wrapper
RethrowingCatch(c) ==
    /\ pc[c] = "rejected"
    /\ frames # <<>>
    /\ LET err == error[c]
           logs == [i \in 1..2 |->
                      ConsoleEntry(c, handleAxiosErrorLogs(endpoint[c], retry[c], err)[i])]
       IN
       /\ history' = [history EXCEPT
                         ![c] = Append(@, ErrorAttempt(retry[c], err))]
       /\ error' = [error EXCEPT ![c] = NoError]
       /\ IF isRetryableError(err) /\ canRetry(retry[c])
          THEN /\ console' = Append(console \o logs,
                                    ConsoleEntry(c, retryLog(endpoint[c], retry[c])))
               /\ AfterHandler(c, [frames |-> callRetry(frames, "catch"),
                                   result |-> Pending, retried |-> TRUE])
          ELSE /\ console' = console \o logs
               /\ AfterHandler(c,
                     settleFrames(SubSeq(frames, 1, Len(frames) - 1),
                                  Rejected(handledError(endpoint[c], err))))
    /\ UNCHANGED <<active, endpoint, params, response, applied, arg, returned>>

\* what the attempts of the earlier wrapper end with: a connection failure
\* or a refused status among the rejections, an empty or a populated value
\* or an exception of the callback
RethrowingFailures == RethrowingErrors \cap {NetworkError, HttpError(503)}
RethrowingResults ==
    {[kind |-> "return", value |-> Str(0)], [kind |-> "return", value |-> Str(1)],
     [kind |-> "throw", value |-> Undefined]}

NextRethrowing ==
    \/ \E c \in Calls, e \in {"info", "invalid"}, p \in Params : RethrowingCall(c, e, p)
    \/ \E c \in Calls : Fulfil(c)
    \/ \E c \in Calls, err \in RethrowingFailures : Reject(c, err)
    \/ \E c \in Calls, res \in RethrowingResults : RethrowingThen(c, res)
    \/ \E c \in Calls : RethrowingCatch(c)

SpecRethrowing == Init /\ [][NextRethrowing]_vars

\* C30: the second implementation of the retry wrapper in the source (the
\* one that logs and rethrows) also issues at most 4 HTTP calls per logical
\* call for every mix and order of retryable failures and empty results,
\* for instance a failed first attempt followed only by empty results.
C30_RethrowingAtMostFourCalls ==
    \A c \in Calls : HttpCount(c) <= 4

----------------------------------------------------------------------------
(* Further properties of the final normalisation.                          *)

RECURSIVE Within(_, _)
\* the tree after has no key and no element that the tree before has not,
\* and the elements of its arrays are in the order they have before
Within(after, before) ==
    CASE before.t = "array" ->
            /\ after.t = "array"
            /\ \E at \in [DOMAIN after.a -> DOMAIN before.a] :
                  /\ \A i, j \in DOMAIN after.a : i < j => at[i] < at[j]
                  /\ \A i \in DOMAIN after.a : Within(after.a[i], before.a[at[i]])
      [] before.t = "object" ->
            /\ after.t = "object"
            /\ DOMAIN after.o \subseteq DOMAIN before.o
            /\ \A k \in DOMAIN after.o : Within(after.o[k], before.o[k])
      [] OTHER -> after = before

(* C33: undefinedFields is idempotent and monotone: for every bounded tree *)
(* t of objects, arrays and scalars, undefinedFields(undefinedFields(t))   *)
(* equals undefinedFields(t), the output contains no key or element that   *)
(* was not in t, and the relative order of retained array elements is      *)
(* unchanged.                                                              *)
C33_IdempotentAndMonotone ==
    /\ applied = "undefinedFields" => Within(returned.value, arg.tree)
    /\ applied = "undefinedFields twice" =>
          /\ returned.value = returned.prev
          /\ Within(returned.value, arg.tree)

\* a second application to an array that lost two of its five elements
C33_Witness ==
    /\ applied = "undefinedFields twice"
    /\ arg.tree = JArr(<<JStr("ganar"), JNull, JStr("vencer"), JStr(""), JNum(1)>>)
    /\ returned.value = JArr(<<JStr("ganar"), JStr("vencer"), JNum(1)>>)

\* the raw rank of an extra-translation entry is a number in 0..4
RankInRange(entry) ==
    /\ RankedEntry(entry)
    /\ ~entry.a[4].nan
    /\ entry.a[4].n \in 0..4

(* C34: after the final normalisation (undefinedFields applied to the      *)
(* assembled result) every extra-translation entry still carries its       *)
(* frequency field with the value 4 - rawRank, for every raw rank in 0..4: *)
(* the normaliser never removes a numeric frequency.                       *)
C34_FrequencySurvivesNormalisation ==
    applied = "undefinedFields(list.translations)" =>
        LET groups == RawTranslationGroups(arg.data) IN
        groups.t = "array" =>
          \A g \in DOMAIN groups.a :
            LET entries == At(groups.a[g], 1) IN
            entries.t = "array" =>
                \A i \in DOMAIN entries.a :
                    LET entry == entries.a[i]
                        out == returned.value.a[g].o.list.a[i].o
                    IN RankInRange(entry) =>
                          /\ "frequency" \in DOMAIN out
                          /\ out.frequency = JNum(4 - entry.a[4].n)

====
